---------------------------- MODULE Spec2Model ----------------------------
(***************************************************************************)
(* A model of the offline layer of jumble:                                 *)
(*   - OfflineStorageService (src/src/services/offline-storage.service.ts) *)
(*     the IndexedDB store with posts, drafts, preferences, cache and      *)
(*     syncQueue tables;                                                   *)
(*   - the service worker (src/unnamed/part_007): the fetch dispatcher and *)
(*     its caching strategies;                                             *)
(*   - useOfflineManager (src/unnamed/part_002): the coordinator hook.     *)
(*                                                                         *)
(* Time is counted in days: Date.now() readings are drawn from Times.      *)
(* Every IndexedDB transaction is one atomic step; a handler that awaits   *)
(* a transaction first (getPost before its delete) is suspended in calls   *)
(* and other calls may run before it continues.                            *)
(***************************************************************************)
EXTENDS Integers, Sequences, FiniteSets, TLC

(***************************************************************************)
(* Bounds                                                                  *)
(***************************************************************************)
\* Rows the drafts table may hold before saveDraft is no longer tried.
MaxDrafts == 2
\* Suspended store calls (between their two transactions) at one time.
MaxCalls == 1
\* respondWith handlers of the service worker awaiting the network at one time.
MaxHandlers == 2
\* Network fetches the service worker issues in a run.
MaxFetches == 2
\* Runs of the activate listener (worker instances that take over).
MaxActivations == 1
\* Runs of updateOnlineStatus in flight at one time.
MaxTasks == 2
\* Rows the drafts table may hold before the hook's saveDraft is no longer tried.
MaxHookDrafts == 3
\* Store methods called in one behaviour of the database open.
MaxOperations == 3
\* indexedDB.open calls after which getInstance is no longer tried.
MaxOpens == 2
\* updateDraft calls in flight between their get and their put.
MaxUpdates == 2

(***************************************************************************)
(* Program constants (offline-storage.service.ts, CACHE_EXPIRATION), days  *)
(***************************************************************************)
CACHE_EXPIRATION_POSTS == 1
CACHE_EXPIRATION_DRAFTS == 30

\* The instants at which the clock is read: around the origin, where a post
\* saved at 0 expires, and 29, 30 and 31 days after them.
Times == {0, 1, 2, CACHE_EXPIRATION_DRAFTS + 1}

\* JavaScript null / absent result.
Null == [null |-> TRUE]

PostIds == {"p1", "p2"}
Authors == {"alice", "bob"}
\* PostData values handed to savePost.
PostInputs == [id : PostIds, author : Authors]

\* Math.random().toString(36).substr(2, 9), as a number in base 36.
Suffixes == {1, 2}
\* `draft_${Date.now()}_${suffix}`
DraftId(t, s) == [t |-> t, s |-> s]
\* Arguments of saveDraft: Omit<OfflineDraft, 'id'|'createdAt'|'lastModified'>.
DraftInputs ==
    { [content |-> "c1", tags |-> <<>>, kind |-> 1],
      [content |-> "c2", tags |-> <<"t">>, kind |-> 0, targetRelays |-> <<"r">>] }
\* Arguments of updateDraft: Partial<OfflineDraft>.
UpdateInputs ==
    { [content |-> "c3"],
      [lastModified |-> 0, kind |-> 7] }
\* UserPreferences values handed to savePreferences.
PreferenceInputs ==
    { [theme |-> "dark", fontSize |-> "small", language |-> "en",
       defaultRelays |-> <<>>, mutedUsers |-> <<>>, mutedWords |-> <<>>],
      [theme |-> "auto", fontSize |-> "large", language |-> "zh",
       defaultRelays |-> <<"r">>, mutedUsers |-> <<"u">>, mutedWords |-> <<"w">>] }

(***************************************************************************)
(* Requests seen by the service worker.  A URL is its host, the segments   *)
(* of its pathname, the extension of the last segment and the names of its *)
(* query parameters: <<"api", "feed">> with ext "" is /api/feed, <<"logo">> *)
(* with ext "png" is /logo.png, <<>> is the root path /.                   *)
(* The host stands for the origin.                                         *)
(***************************************************************************)
SelfHost == "jumble.app"
Url(scheme, host, path, ext, query) ==
    [scheme |-> scheme, host |-> host, path |-> path, ext |-> ext, query |-> query]
Request(method, url) == [method |-> method, url |-> url]

LogoPng == Request("GET", Url("https", SelfHost, <<"logo">>, "png", {}))
ApiFeed == Request("GET", Url("https", SelfHost, <<"api", "feed">>, "", {}))
PostGet == Request("GET", Url("https", SelfHost, <<"posts", "1">>, "", {}))
PostPost == Request("POST", Url("https", SelfHost, <<"posts", "1">>, "", {}))
RootPage == Request("GET", Url("https", SelfHost, <<>>, "", {}))
Profile == Request("GET", Url("https", SelfHost, <<"profile">>, "", {}))
EsmModule == Request("GET", Url("https", "esm.sh", <<"react">>, "", {}))
RelayInfo == Request("GET", Url("https", "relay.example", <<"info">>, "", {}))
Upload == Request("POST", Url("https", "relay.example", <<"upload">>, "", {}))
\* The requests the router specification intercepts.
RouterRequests ==
    {LogoPng, ApiFeed, PostGet, PostPost, RootPage, Profile, EsmModule, RelayInfo, Upload}

VARIABLES
    now,          \* the last reading of Date.now()
    posts,        \* object store 'posts'       (keyPath id)
    drafts,       \* object store 'drafts'      (keyPath id)
    preferences,  \* object store 'preferences' (keyPath key)
    cache,        \* object store 'cache'       (keyPath key)
    syncQueue,    \* object store 'syncQueue'   (keyPath id)
    calls,        \* store calls suspended between two transactions
    ret,          \* the call that completed last, with its result
    caches,       \* CacheStorage: cache name -> (request -> response)
    handlers,     \* respondWith handlers awaiting their network fetch
    refreshes,    \* background fetches whose result is not awaited
    puts,         \* cache.put calls issued and not yet committed
    fetches,      \* number of network fetches issued so far
    answer,       \* the handler that settled last, with its outcome
    served,       \* requests answered so far with an ok network response
    routed,       \* the request dispatched last and the handler chosen
    activated,    \* what each run of the activate listener deleted and kept
    abandoned,    \* fetches still in flight whose race the timer has won
    late,         \* the abandoned fetch that settled last
    hostOnline,   \* navigator.onLine
    offlineState, \* the hook's offlineState
    draftList,    \* the hook's drafts state
    tasks,        \* runs of updateOnlineStatus in flight
    done,         \* the hook operation that completed last, with its result
    instance,     \* OfflineStorageService.instance exists
    openRequest,  \* the IDBOpenDBRequest of init()
    db,           \* this.db
    initialized,  \* this.initialized
    initPromise,  \* this.initPromise
    opens,        \* number of indexedDB.open calls issued so far
    operations,   \* the store methods called so far, in call order
    databases,    \* the IndexedDB databases that exist, by name
    localStorage, \* the keys of window.localStorage
    sessionStorage, \* the keys of window.sessionStorage
    prober,       \* the CachePersistenceService call in flight
    report,       \* the CachePersistenceService call that completed last
    worker,       \* the newest worker generation: its state, flag and inbox
    page          \* the page: its controller, update notice, clicks, reloads

storeVars == <<now, posts, drafts, preferences, cache, syncQueue, calls, ret>>
routerVars == <<caches, handlers, refreshes, puts, fetches, answer, served, routed, activated,
                abandoned, late>>
coordVars == <<hostOnline, offlineState, draftList, tasks, done>>
openVars == <<instance, openRequest, db, initialized, initPromise, opens, operations>>
proberVars == <<databases, localStorage, sessionStorage, prober, report>>
updateVars == <<worker, page>>
vars == <<now, posts, drafts, preferences, cache, syncQueue, calls, ret,
          caches, handlers, refreshes, puts, fetches, answer, served, routed,
          activated, abandoned, late,
          hostOnline, offlineState, draftList, tasks, done,
          instance, openRequest, db, initialized, initPromise, opens, operations,
          databases, localStorage, sessionStorage, prober, report,
          worker, page>>

(***************************************************************************)
(* Generic IndexedDB operations                                            *)
(***************************************************************************)
\* Mutant of IDBPut: the row is added and an older row of that key is kept.
IDBPutKeepsOld(store, keyPath, data) ==
    store \cup {data}

\* store.put(data): the row with the same key is replaced.
IDBPut(store, keyPath, data) ==
    {r \in store : r[keyPath] # data[keyPath]} \cup {data}

\* store.get(key), then `request.result || null`.
IDBGet(store, keyPath, key) ==
    IF \E r \in store : r[keyPath] = key
    THEN CHOOSE r \in store : r[keyPath] = key
    ELSE Null

\* store.delete(key): succeeds whether or not the key is present.
IDBDelete(store, keyPath, key) ==
    {r \in store : r[keyPath] # key}

\* Mutant of CleanupByIndex: the threshold itself counts as expired.
CleanupByIndexInclusive(store, indexName, threshold) ==
    {r \in store : ~(indexName \in DOMAIN r /\ r[indexName] <= threshold)}

\* Mutant of CleanupByIndex: the cursor is not continued after a delete, so a
\* run removes one expired row only.
CleanupByIndexFirstOnly(store, indexName, threshold) ==
    LET expired == {r \in store : indexName \in DOMAIN r /\ r[indexName] < threshold}
    IN  IF expired = {} THEN store
        ELSE store \ {CHOOSE r \in expired :
                         \A q \in expired : r[indexName] <= q[indexName]}

\* index.openCursor(): every row that has the index key; rows whose value is
\* below the threshold are deleted.
CleanupByIndex(store, indexName, threshold) ==
    {r \in store : ~(indexName \in DOMAIN r /\ r[indexName] < threshold)}

\* Readings of Date.now() not earlier than t.
ClockFrom(t) == {u \in Times : u >= t}

(***************************************************************************)
(* Posts                                                                   *)
(***************************************************************************)
\* savePost: cachedAt and expiresAt come from two readings of the clock.
SavePost(post, t1, t2) ==
    /\ t1 \in ClockFrom(now) /\ t2 \in ClockFrom(t1)
    /\ posts' = IDBPut(posts, "id",
                       [id |-> post.id, data |-> post, cachedAt |-> t1,
                        expiresAt |-> t2 + CACHE_EXPIRATION_POSTS])
    /\ now' = t2
    /\ ret' = [op |-> "savePost", id |-> post.id]
    /\ UNCHANGED <<drafts, preferences, cache, syncQueue, calls>>
    /\ UNCHANGED <<routerVars, coordVars, openVars, proberVars, updateVars>>

\* Mutant of PostIsFresh: a row is still served at its expiry instant.
PostIsFreshAtExpiry(cachedPost, t) ==
    cachedPost # Null /\ cachedPost.expiresAt >= t

\* The test of getPost on the row it read, at clock reading t.
PostIsFresh(cachedPost, t) ==
    cachedPost # Null /\ cachedPost.expiresAt > t

\* getPost up to its return or to the await of the delete.
GetPostRead(id, t) ==
    /\ t \in ClockFrom(now)
    /\ now' = t
    /\ LET cachedPost == IDBGet(posts, "id", id) IN
         IF PostIsFresh(cachedPost, t)
         THEN /\ ret' = [op |-> "getPost", id |-> id, at |-> t,
                         row |-> cachedPost, val |-> cachedPost.data]
              /\ UNCHANGED calls
         ELSE IF cachedPost # Null
         THEN /\ Cardinality(calls) < MaxCalls
              /\ calls' = calls \cup {[op |-> "getPost", id |-> id, at |-> t,
                                       row |-> cachedPost]}
              /\ ret' = [op |-> "none"]
         ELSE /\ ret' = [op |-> "getPost", id |-> id, at |-> t,
                         row |-> Null, val |-> Null]
              /\ UNCHANGED calls
    /\ UNCHANGED <<posts, drafts, preferences, cache, syncQueue>>
    /\ UNCHANGED <<routerVars, coordVars, openVars, proberVars, updateVars>>

\* getPost: the delete of the expired row, then `return null`.
GetPostDelete(c) ==
    /\ c \in calls /\ c.op = "getPost"
    /\ posts' = IDBDelete(posts, "id", c.id)
    /\ calls' = calls \ {c}
    /\ ret' = [op |-> "getPost", id |-> c.id, at |-> c.at, row |-> c.row, val |-> Null]
    /\ UNCHANGED <<now, drafts, preferences, cache, syncQueue>>
    /\ UNCHANGED <<routerVars, coordVars, openVars, proberVars, updateVars>>

(***************************************************************************)
(* Drafts                                                                  *)
(***************************************************************************)
\* `tags: draft.tags || []`: an array is truthy, a missing one is not.
TagsOrEmpty(draft) ==
    IF "tags" \in DOMAIN draft THEN draft.tags ELSE <<>>

\* `kind: draft.kind || 1`: 0 and a missing kind are falsy.
KindOrOne(draft) ==
    IF "kind" \in DOMAIN draft /\ draft.kind # 0 THEN draft.kind ELSE 1

\* The OfflineDraft object built by saveDraft from three clock readings.
NewDraft(draft, s, t1, t2, t3) ==
    LET base == [id |-> DraftId(t1, s), content |-> draft.content,
                 tags |-> TagsOrEmpty(draft), kind |-> KindOrOne(draft),
                 createdAt |-> t2, lastModified |-> t3]
    IN  IF "targetRelays" \in DOMAIN draft
        THEN base @@ [targetRelays |-> draft.targetRelays]
        ELSE base

\* saveDraft. `existed` records whether put replaced a row (not program state).
SaveDraft(draft, s, t1, t2, t3) ==
    /\ Cardinality(drafts) < MaxDrafts
    /\ t1 \in ClockFrom(now) /\ t2 \in ClockFrom(t1) /\ t3 \in ClockFrom(t2)
    /\ LET offlineDraft == NewDraft(draft, s, t1, t2, t3) IN
         /\ drafts' = IDBPut(drafts, "id", offlineDraft)
         /\ ret' = [op |-> "saveDraft", val |-> offlineDraft.id, draft |-> draft,
                    existed |-> (IDBGet(drafts, "id", offlineDraft.id) # Null)]
    /\ now' = t3
    /\ UNCHANGED <<posts, preferences, cache, syncQueue, calls>>
    /\ UNCHANGED <<routerVars, coordVars, openVars, proberVars, updateVars>>

\* { ...draft, ...updates, lastModified: Date.now() }
MergeDraft(draft, updates, t) ==
    [f \in (DOMAIN draft \cup DOMAIN updates \cup {"lastModified"}) |->
        IF f = "lastModified" THEN t
        ELSE IF f \in DOMAIN updates THEN updates[f]
        ELSE draft[f]]

\* Mutant of UpdatedDrafts: a missing draft is created from the updates.
UpdatedDraftsUpsert(store, id, updates, t) ==
    LET draft == IDBGet(store, "id", id) IN
      [drafts |-> IDBPut(store, "id",
                         MergeDraft(IF draft # Null THEN draft ELSE [id |-> id],
                                    updates, t)),
       err |-> ""]

\* The body of updateDraft: the table it leaves and the error it throws
\* ("" when it returns).
UpdatedDrafts(store, id, updates, t) ==
    LET draft == IDBGet(store, "id", id) IN
      IF draft # Null
      THEN [drafts |-> IDBPut(store, "id", MergeDraft(draft, updates, t)), err |-> ""]
      ELSE [drafts |-> store, err |-> "Draft not found"]

\* updateDraft, run to completion: the get, then the put of the merged draft
\* or the throw of 'Draft not found'.
UpdateDraft(id, updates, t) ==
    /\ t \in ClockFrom(now)
    /\ LET result == UpdatedDrafts(drafts, id, updates, t) IN
         /\ drafts' = result.drafts
         /\ ret' = [op |-> "updateDraft", id |-> id, err |-> result.err]
         /\ IF result.err = "" THEN now' = t ELSE t = now /\ UNCHANGED now
    /\ UNCHANGED <<posts, preferences, cache, syncQueue, calls>>
    /\ UNCHANGED <<routerVars, coordVars, openVars, proberVars, updateVars>>

\* The put of updateDraft keeps a row that changed since the call read it.
DraftToPutUnlessChanged(call, store) ==
    LET current == IDBGet(store, "id", call.id) IN
      IF current = Null \/ current = call.read THEN call.updatedDraft ELSE current

\* The object updateDraft hands to put: the updatedDraft it built after its
\* get, whatever the table holds by then.
DraftToPut(call, store) == call.updatedDraft

\* updateDraft up to the await of its put: the get has resolved and
\* updatedDraft is built, or 'Draft not found' is thrown.  `n` numbers the
\* calls in flight in the order they were issued; `read`, `updates` and `t`
\* are kept for the record of the call (not program state).
UpdateDraftGet(id, updates, t) ==
    /\ Cardinality(calls) < MaxUpdates
    /\ t \in ClockFrom(now)
    /\ LET draft == IDBGet(drafts, "id", id) IN
         IF draft # Null
         THEN /\ calls' = calls \cup
                    {[op |-> "updateDraft", id |-> id, n |-> Cardinality(calls) + 1,
                      read |-> draft, updates |-> updates, t |-> t,
                      updatedDraft |-> MergeDraft(draft, updates, t)]}
              /\ now' = t
              /\ UNCHANGED ret
         ELSE /\ ret' = [op |-> "updateDraft", id |-> id, err |-> "Draft not found"]
              /\ t = now
              /\ UNCHANGED <<now, calls>>
    /\ UNCHANGED <<posts, drafts, preferences, cache, syncQueue>>
    /\ UNCHANGED <<routerVars, coordVars, openVars, proberVars, updateVars>>

\* updateDraft: the put commits in its own transaction and the call returns.
\* `overwrote` records the row the put replaced (not program state).
UpdateDraftPut(call) ==
    /\ call \in calls /\ call.op = "updateDraft"
    /\ drafts' = IDBPut(drafts, "id", DraftToPut(call, drafts))
    /\ calls' = calls \ {call}
    /\ ret' = [op |-> "updateDraft", id |-> call.id, err |-> "", n |-> call.n,
               read |-> call.read, updates |-> call.updates, t |-> call.t,
               overwrote |-> IDBGet(drafts, "id", call.id)]
    /\ UNCHANGED <<now, posts, preferences, cache, syncQueue>>
    /\ UNCHANGED <<routerVars, coordVars, openVars, proberVars, updateVars>>

GetDraft(id) ==
    /\ ret' = [op |-> "getDraft", id |-> id, val |-> IDBGet(drafts, "id", id)]
    /\ UNCHANGED <<now, posts, drafts, preferences, cache, syncQueue, calls>>
    /\ UNCHANGED <<routerVars, coordVars, openVars, proberVars, updateVars>>

\* Order of the primary key `draft_<t>_<s>`.
IdLess(a, b) == a.t < b.t \/ (a.t = b.t /\ a.s < b.s)

\* store.openCursor(): the rows in key order.
RECURSIVE CursorRows(_)
CursorRows(store) ==
    IF store = {} THEN <<>>
    ELSE LET first == CHOOSE r \in store :
                        \A q \in store : q = r \/ IdLess(r.id, q.id)
         IN  <<first>> \o CursorRows(store \ {first})

\* Mutant of CompareDrafts: ascending order.
CompareDraftsAscending(a, b) == a.lastModified - b.lastModified

\* The comparator of getAllDrafts: (a, b) => b.lastModified - a.lastModified.
CompareDrafts(a, b) == b.lastModified - a.lastModified

\* Array.prototype.sort with that comparator (stable): x goes behind every
\* element it does not have to precede.
RECURSIVE InsertSorted(_, _)
InsertSorted(sorted, x) ==
    IF sorted = <<>> THEN <<x>>
    ELSE IF CompareDrafts(x, Head(sorted)) < 0
         THEN <<x>> \o sorted
         ELSE <<Head(sorted)>> \o InsertSorted(Tail(sorted), x)

RECURSIVE SortDrafts(_)
SortDrafts(rows) ==
    IF rows = <<>> THEN <<>>
    ELSE InsertSorted(SortDrafts(SubSeq(rows, 1, Len(rows) - 1)), rows[Len(rows)])

GetAllDrafts ==
    /\ ret' = [op |-> "getAllDrafts", val |-> SortDrafts(CursorRows(drafts))]
    /\ UNCHANGED <<now, posts, drafts, preferences, cache, syncQueue, calls>>
    /\ UNCHANGED <<routerVars, coordVars, openVars, proberVars, updateVars>>

\* deleteDraft; `existed` records whether the table held the id (not program
\* state).
DeleteDraft(id) ==
    /\ drafts' = IDBDelete(drafts, "id", id)
    /\ ret' = [op |-> "deleteDraft", id |-> id, err |-> "",
               existed |-> (IDBGet(drafts, "id", id) # Null)]
    /\ UNCHANGED <<now, posts, preferences, cache, syncQueue, calls>>
    /\ UNCHANGED <<routerVars, coordVars, openVars, proberVars, updateVars>>

(***************************************************************************)
(* Preferences                                                             *)
(***************************************************************************)
\* What getPreferences returns on a store: `result ? result.data : null`.
ReadPreferences(store) ==
    LET result == IDBGet(store, "key", "user_preferences") IN
        IF result # Null THEN result.data ELSE Null

\* savePreferences. `prev` records what a read returned before (not program
\* state).
SavePreferences(prefs, t) ==
    /\ t \in ClockFrom(now)
    /\ now' = t
    /\ preferences' = IDBPut(preferences, "key",
                             [key |-> "user_preferences", data |-> prefs,
                              updatedAt |-> t])
    /\ ret' = [op |-> "savePreferences", arg |-> prefs,
               prev |-> ReadPreferences(preferences)]
    /\ UNCHANGED <<posts, drafts, cache, syncQueue, calls>>
    /\ UNCHANGED <<routerVars, coordVars, openVars, proberVars, updateVars>>

GetPreferences ==
    /\ ret' = [op |-> "getPreferences", val |-> ReadPreferences(preferences)]
    /\ UNCHANGED <<now, posts, drafts, preferences, cache, syncQueue, calls>>
    /\ UNCHANGED <<routerVars, coordVars, openVars, proberVars, updateVars>>

(***************************************************************************)
(* Maintenance                                                             *)
(***************************************************************************)
\* The tables after cleanupExpiredData read the clock as t1 (now) and then as
\* t2 (for draftExpiry).
CleanedPosts(store, t1) == CleanupByIndex(store, "expiresAt", t1)
CleanedDrafts(store, t2) ==
    CleanupByIndex(store, "lastModified", t2 - CACHE_EXPIRATION_DRAFTS)
CleanedCache(store, t1) == CleanupByIndex(store, "expiresAt", t1)

\* `pre` records the tables before the run (not program state).
CleanupExpiredData(t1, t2) ==
    /\ t1 \in ClockFrom(now) /\ t2 \in ClockFrom(t1)
    /\ now' = t2
    /\ posts' = CleanedPosts(posts, t1)
    /\ drafts' = CleanedDrafts(drafts, t2)
    /\ cache' = CleanedCache(cache, t1)
    /\ ret' = [op |-> "cleanupExpired", at |-> t1, at2 |-> t2,
               pre |-> [posts |-> posts, drafts |-> drafts, cache |-> cache,
                        preferences |-> preferences, syncQueue |-> syncQueue]]
    /\ UNCHANGED <<preferences, syncQueue, calls>>
    /\ UNCHANGED <<routerVars, coordVars, openVars, proberVars, updateVars>>

\* clearAllData: store.clear() on every object store.
ClearAllData ==
    /\ posts' = {}
    /\ drafts' = {}
    /\ preferences' = {}
    /\ cache' = {}
    /\ syncQueue' = {}
    /\ ret' = [op |-> "clearAllData"]
    /\ UNCHANGED <<now, calls>>
    /\ UNCHANGED <<routerVars, coordVars, openVars, proberVars, updateVars>>

\* The clock moves on between calls.
Tick(t) ==
    /\ t \in ClockFrom(now) /\ t # now
    /\ now' = t
    /\ ret' = [op |-> "none"]
    /\ UNCHANGED <<posts, drafts, preferences, cache, syncQueue, calls>>
    /\ UNCHANGED <<routerVars, coordVars, openVars, proberVars, updateVars>>

(***************************************************************************)
(* Service worker: classification of a request                             *)
(***************************************************************************)
CACHE_NAME == "jumble-cache-v2"
STATIC_CACHE_NAME == "jumble-static-v2"
IMAGE_CACHE_NAME == "jumble-images-v2"
API_CACHE_NAME == "jumble-api-v2"
FONT_CACHE_NAME == "jumble-fonts-v2"
ESM_CACHE_NAME == "jumble-esm-v2"
POST_CACHE_NAME == "jumble-posts-v2"
USER_CACHE_NAME == "jumble-user-v2"

\* The regular expressions carry the flag i: the extension is compared in
\* lower case.
LowerCase(ext) ==
    CASE ext = "PNG" -> "png"
      [] ext = "HTML" -> "html"
      [] OTHER -> ext

\* pathname.includes('/' + name + '/'): a segment equal to name that another
\* segment follows.
IncludesSegment(path, name) ==
    \E i \in 1..(Len(path) - 1) : path[i] = name

\* pathname.includes('/nostr'): a segment that starts with nostr.
IncludesNostr(path) ==
    \E i \in 1..Len(path) : path[i] \in {"nostr", "nostr-relay"}

isImageRequest(request) ==
    LowerCase(request.url.ext) \in {"png", "jpg", "jpeg", "svg", "gif", "webp", "ico", "bmp"}

isFontRequest(request) ==
    LowerCase(request.url.ext) \in {"woff", "woff2", "ttf", "eot", "otf"}

isStaticRequest(request) ==
    \/ LowerCase(request.url.ext) \in {"js", "css", "html", "json", "webmanifest"}
    \/ (request.url.path = <<>> /\ request.url.ext = "")
    \/ request.url.ext = "html"

isAPIRequest(request) ==
    \/ IncludesSegment(request.url.path, "api")
    \/ IncludesSegment(request.url.path, "v1")
    \/ IncludesSegment(request.url.path, "rpc")

isPostRequest(request) ==
    \/ IncludesSegment(request.url.path, "relay")
    \/ IncludesNostr(request.url.path)
    \/ "event" \in request.url.query
    \/ "post" \in request.url.query
    \/ IncludesSegment(request.url.path, "posts")

isESMRequest(request) ==
    request.url.host \in {"esm.sh", "cdn.skypack.dev", "unpkg.com"}

\* The fetch listener: the handler given to respondWith, or "none" when the
\* listener returns without responding (the URL does not start with http).
Classify(request) ==
    IF request.url.scheme \notin {"http", "https"} THEN "none"
    ELSE IF request.url.host = SelfHost
    THEN IF isImageRequest(request) THEN "handleImageRequest"
         ELSE IF isFontRequest(request) THEN "handleFontRequest"
         ELSE IF isStaticRequest(request) THEN "handleStaticRequest"
         ELSE IF isAPIRequest(request) THEN "handleAPIRequest"
         ELSE IF isPostRequest(request) THEN "handlePostRequest"
         ELSE "handleNetworkFirstRequest"
    ELSE IF isESMRequest(request) THEN "handleESMRequest"
    ELSE "handleCrossOriginRequest"

\* The strategy a handler implements.
StrategyOf(handler) ==
    CASE handler \in {"handleImageRequest", "handleFontRequest", "handleESMRequest"}
            -> "cacheFirst"
      [] handler \in {"handleStaticRequest", "handleCrossOriginRequest"}
            -> "staleWhileRevalidate"
      [] handler = "handleAPIRequest" -> "networkFirstTimeout"
      [] handler = "handlePostRequest" -> "post"
      [] handler = "handleNetworkFirstRequest" -> "networkFirst"

\* The cache a handler opens for its put.
BucketOf(handler) ==
    CASE handler = "handleImageRequest" -> IMAGE_CACHE_NAME
      [] handler = "handleFontRequest" -> FONT_CACHE_NAME
      [] handler = "handleStaticRequest" -> STATIC_CACHE_NAME
      [] handler = "handleAPIRequest" -> API_CACHE_NAME
      [] handler = "handlePostRequest" -> POST_CACHE_NAME
      [] handler = "handleESMRequest" -> ESM_CACHE_NAME
      [] handler = "handleNetworkFirstRequest" -> USER_CACHE_NAME
      [] handler = "handleCrossOriginRequest" -> CACHE_NAME

(***************************************************************************)
(* Service worker: CacheStorage                                            *)
(***************************************************************************)
\* A network response: its ok flag and the number of the fetch it answers.
Response(ok, n) == [ok |-> ok, n |-> n]

NoEntries == [r \in {} |-> Null]

\* caches.open(name): the cache is created when it does not exist.
OpenCache(cs, name) ==
    IF name \in DOMAIN cs THEN cs ELSE cs @@ (name :> NoEntries)

\* cache.match(request) on one cache: only a GET request matches.
CacheMatch(cs, name, request) ==
    IF /\ request.method = "GET"
       /\ name \in DOMAIN cs
       /\ request \in DOMAIN cs[name]
    THEN cs[name][request]
    ELSE Null

\* caches.match(request): the entry of a cache that holds the request.
CachesMatch(cs, request) ==
    LET hits == {name \in DOMAIN cs : CacheMatch(cs, name, request) # Null}
    IN  IF hits = {} THEN Null
        ELSE CacheMatch(cs, CHOOSE name \in hits : TRUE, request)

\* The lookup a handler starts with: caches.match for cache-first and
\* stale-while-revalidate, cache.match on its own cache for the others.
Lookup(cs, handler, request) ==
    IF StrategyOf(handler) \in {"cacheFirst", "staleWhileRevalidate"}
    THEN CachesMatch(cs, request)
    ELSE CacheMatch(cs, BucketOf(handler), request)

\* The caches after a handler's first awaits: the API, post and network-first
\* handlers open their cache before anything else.
OpenedAtStart(cs, handler) ==
    IF StrategyOf(handler) \in {"networkFirstTimeout", "post", "networkFirst"}
    THEN OpenCache(cs, BucketOf(handler))
    ELSE cs

\* cache.put(request, response) once it commits: a request that is not a GET
\* makes put reject, and nothing is stored.
CachePut(cs, name, request, response) ==
    IF request.method # "GET" THEN OpenCache(cs, name)
    ELSE LET opened == OpenCache(cs, name) IN
         [opened EXCEPT ![name] =
             [r \in DOMAIN opened[name] \cup {request} |->
                 IF r = request THEN response ELSE opened[name][r]]]

(***************************************************************************)
(* Service worker: handlers                                                *)
(***************************************************************************)
\* The outcome of a handler: the response given to respondWith and where it
\* came from, or the error thrown.
FromCache(h) == [source |-> "cache", resp |-> h.cached]
FromNetwork(resp) == [source |-> "network", resp |-> resp]
\* Mutant of Failure: a made-up response takes the place of the error.
FailureAsResponse == [source |-> "synthetic", resp |-> [ok |-> TRUE, n |-> 0]]
Failure == [source |-> "failure", resp |-> Null]

\* Mutant of Fallback: the cached response is not used.
FallbackIgnoresCache(h) == Failure

\* What the API, post and network-first handlers do once the network has
\* failed, answered not-ok or timed out.
Fallback(h) ==
    IF h.cached # Null /\ (h.handler = "handlePostRequest" => h.req.method = "GET")
    THEN FromCache(h)
    ELSE Failure

\* `net` records how the awaited fetch ended: "none" when none was awaited,
\* "responded", "failed" or "timeout".
Settled(h, outcome, net) ==
    [req |-> h.req, handler |-> h.handler, cached |-> h.cached,
     afterOk |-> h.afterOk, fetched |-> h.fetched, timedOut |-> (net = "timeout"),
     net |-> net,
     n |-> IF h.fetched THEN h.n ELSE 0, background |-> h.background,
     source |-> outcome.source, resp |-> outcome.resp]

\* Requests answered with an ok network response, after this outcome.
ServedAfter(req, outcome) ==
    IF outcome.source = "network" /\ outcome.resp.ok
    THEN served \cup {req}
    ELSE served

\* The fetch listener and the handler it calls, up to the handler's return
\* or to its await of the network.
FetchEvent(req) ==
    LET handler == Classify(req)
        strategy == StrategyOf(handler)
        opened == OpenedAtStart(caches, handler)
        cached == Lookup(opened, handler, req)
        \* The handlers that return the cached response at once.
        returnsHit ==
            /\ cached # Null
            /\ \/ strategy \in {"cacheFirst", "staleWhileRevalidate"}
               \/ strategy = "post" /\ req.method = "GET"
        \* Cache-first issues no fetch on a hit; the others always fetch.
        doesFetch == ~(strategy = "cacheFirst" /\ cached # Null)
        \* `background` is the number of the fetch left running behind a
        \* returned hit, 0 when there is none.
        h == [req |-> req, handler |-> handler, cached |-> cached,
              afterOk |-> (req \in served), fetched |-> FALSE, n |-> 0,
              background |-> IF returnsHit /\ doesFetch THEN fetches + 1 ELSE 0]
    IN
    /\ handler # "none"
    /\ routed' = [req |-> req, handler |-> handler]
    /\ caches' = opened
    /\ IF doesFetch
       THEN fetches < MaxFetches /\ fetches' = fetches + 1
       ELSE UNCHANGED fetches
    /\ IF returnsHit
       THEN /\ answer' = Settled(h, FromCache(h), "none")
            /\ refreshes' = IF doesFetch
                            THEN refreshes \cup {[req |-> req, handler |-> handler,
                                                  n |-> fetches + 1]}
                            ELSE refreshes
            /\ UNCHANGED handlers
       ELSE /\ Cardinality(handlers) < MaxHandlers
            /\ handlers' = handlers \cup {[h EXCEPT !.fetched = TRUE, !.n = fetches + 1]}
            /\ UNCHANGED <<answer, refreshes>>
    /\ UNCHANGED <<puts, served>>
    /\ UNCHANGED <<storeVars, coordVars, activated, abandoned, late, openVars, proberVars, updateVars>>

\* Mutant of PutsAfter: the post handler puts whatever the method.
PutsAfterAnyMethod(h, resp) ==
    IF resp.ok
    THEN puts \cup {[cache |-> BucketOf(h.handler), req |-> h.req, resp |-> resp]}
    ELSE puts

\* Mutant of PutsAfter: nothing is put.
PutsAfterNothing(h, resp) == puts

\* Mutant of PutsAfter: the response is put whatever its status.
PutsAfterAnyStatus(h, resp) ==
    IF h.handler = "handlePostRequest" => h.req.method = "GET"
    THEN puts \cup {[cache |-> BucketOf(h.handler), req |-> h.req, resp |-> resp]}
    ELSE puts

\* The put a handler issues (and does not await) for an ok network response.
PutsAfter(h, resp) ==
    IF resp.ok /\ (h.handler = "handlePostRequest" => h.req.method = "GET")
    THEN puts \cup {[cache |-> BucketOf(h.handler), req |-> h.req, resp |-> resp]}
    ELSE puts

\* The awaited fetch of a handler resolves with a response.
NetworkResponds(h, ok) ==
    /\ h \in handlers
    /\ LET resp == Response(ok, h.n)
           outcome == IF ok \/ StrategyOf(h.handler) \in {"cacheFirst", "staleWhileRevalidate"}
                      THEN FromNetwork(resp)
                      ELSE Fallback(h)
       IN /\ puts' = PutsAfter(h, resp)
          /\ answer' = Settled(h, outcome, "responded")
          /\ served' = ServedAfter(h.req, outcome)
    /\ handlers' = handlers \ {h}
    /\ UNCHANGED <<caches, refreshes, fetches, routed>>
    /\ UNCHANGED <<storeVars, coordVars, activated, abandoned, late, openVars, proberVars, updateVars>>

\* The awaited fetch of a handler rejects.
NetworkFails(h) ==
    /\ h \in handlers
    /\ LET outcome == IF StrategyOf(h.handler) \in {"cacheFirst", "staleWhileRevalidate"}
                      THEN Failure
                      ELSE Fallback(h)
       IN answer' = Settled(h, outcome, "failed")
    /\ handlers' = handlers \ {h}
    /\ UNCHANGED <<caches, refreshes, puts, fetches, served, routed>>
    /\ UNCHANGED <<storeVars, coordVars, activated, abandoned, late, openVars, proberVars, updateVars>>

\* handleAPIRequest: the 5 second timer rejects the race before the fetch has
\* settled; the fetch goes on, and nothing is left that would handle its
\* later result.
NetworkTimeout(h) ==
    /\ h \in handlers
    /\ StrategyOf(h.handler) = "networkFirstTimeout"
    /\ answer' = Settled(h, Fallback(h), "timeout")
    /\ handlers' = handlers \ {h}
    /\ abandoned' = abandoned \cup {[req |-> h.req, handler |-> h.handler, n |-> h.n]}
    /\ UNCHANGED <<caches, refreshes, puts, fetches, served, routed, late>>
    /\ UNCHANGED <<storeVars, coordVars, activated, openVars, proberVars, updateVars>>

\* The put issued when the loser of the race settles: none, the promise has
\* no continuation but the race that is over.
PutsAfterAbandoned(a, ok) == puts

\* The fetch of a timed-out handleAPIRequest settles after the race.
AbandonedSettles(a, ok) ==
    /\ a \in abandoned
    /\ abandoned' = abandoned \ {a}
    /\ late' = [req |-> a.req, n |-> a.n, ok |-> ok]
    /\ puts' = PutsAfterAbandoned(a, ok)
    /\ UNCHANGED <<caches, handlers, refreshes, fetches, answer, served, routed>>
    /\ UNCHANGED <<storeVars, coordVars, activated, openVars, proberVars, updateVars>>

\* A background fetch settles: an ok response is put, anything else is dropped.
RefreshSettles(r, outcome) ==
    /\ r \in refreshes
    /\ refreshes' = refreshes \ {r}
    /\ puts' = IF outcome = "ok"
               THEN puts \cup {[cache |-> BucketOf(r.handler), req |-> r.req,
                                resp |-> Response(TRUE, r.n)]}
               ELSE puts
    /\ UNCHANGED <<caches, handlers, fetches, answer, served, routed>>
    /\ UNCHANGED <<storeVars, coordVars, activated, abandoned, late, openVars, proberVars, updateVars>>

\* A cache.put that was issued commits.
PutCommits(p) ==
    /\ p \in puts
    /\ puts' = puts \ {p}
    /\ caches' = CachePut(caches, p.cache, p.req, p.resp)
    /\ UNCHANGED <<handlers, refreshes, fetches, answer, served, routed>>
    /\ UNCHANGED <<storeVars, coordVars, activated, abandoned, late, openVars, proberVars, updateVars>>

\* The worker after install and activate: the static cache was opened; the
\* root page was precached by addAll unless addAll failed.
Precached == (STATIC_CACHE_NAME :> (RootPage :> Response(TRUE, 0)))
NotPrecached == (STATIC_CACHE_NAME :> NoEntries)

InitStore ==
    /\ now = 0
    /\ posts = {}
    /\ drafts = {}
    /\ preferences = {}
    /\ cache = {}
    /\ syncQueue = {}
    /\ calls = {}
    /\ ret = [op |-> "none"]

\* The names of part_006, the worker this one replaces.
OLD_CACHE_NAME == "jumble-cache-v1"
OLD_IMAGE_CACHE_NAME == "jumble-images-v1"

\* The worker replaces an earlier one: the caches that one left are there, and
\* so is the cross-origin cache an earlier instance of this worker filled.
Upgraded ==
    Precached @@ (OLD_CACHE_NAME :> (RelayInfo :> Response(TRUE, 0)))
              @@ (OLD_IMAGE_CACHE_NAME :> (LogoPng :> Response(TRUE, 0)))
              @@ (CACHE_NAME :> (RelayInfo :> Response(TRUE, 0)))

\* Mutant of currentCaches: the post cache is left out.
currentCachesNoPosts ==
    {STATIC_CACHE_NAME, IMAGE_CACHE_NAME, API_CACHE_NAME, FONT_CACHE_NAME,
     ESM_CACHE_NAME, USER_CACHE_NAME}

\* The names the activate listener keeps.
currentCaches ==
    {STATIC_CACHE_NAME, IMAGE_CACHE_NAME, API_CACHE_NAME, FONT_CACHE_NAME,
     ESM_CACHE_NAME, POST_CACHE_NAME, USER_CACHE_NAME}

\* self.clients.claim(): the page gets this worker as its controller, and a
\* controllerchange event when that is a change.
Claimed(p) ==
    IF p.controller = "new" THEN p
    ELSE [p EXCEPT !.controller = "new", !.controllerchange = TRUE]

\* The activate listener: every cache whose name is not in currentCaches is
\* deleted, then the clients are claimed.
Activate ==
    /\ Len(activated) < MaxActivations
    /\ LET kept == [name \in DOMAIN caches \cap currentCaches |-> caches[name]] IN
         /\ caches' = kept
         /\ activated' = Append(activated,
                                [deleted |-> DOMAIN caches \ currentCaches,
                                 kept |-> kept])
    /\ worker' = [worker EXCEPT !.state = "activated"]
    /\ page' = Claimed(page)
    /\ UNCHANGED <<handlers, refreshes, puts, fetches, answer, served, routed>>
    /\ UNCHANGED <<abandoned, late>>
    /\ UNCHANGED <<storeVars, coordVars, openVars, proberVars>>

\* The worker is activated and controls the page, which shows no notice.
InitControlled ==
    /\ worker = [state |-> "activated", skipWaiting |-> TRUE, inbox |-> 0]
    /\ page = [controller |-> "new", statechange |-> FALSE, notification |-> FALSE,
               controllerchange |-> FALSE, clicked |-> FALSE, reloads |-> 0]

InitRouter ==
    /\ InitControlled
    /\ caches \in {Precached, NotPrecached, Upgraded}
    /\ activated = <<>>
    /\ abandoned = {}
    /\ late = [ok |-> FALSE]
    /\ handlers = {}
    /\ refreshes = {}
    /\ puts = {}
    /\ fetches = 0
    /\ answer = [source |-> "none"]
    /\ served = {}
    /\ routed = [handler |-> "none"]

(***************************************************************************)
(* useOfflineManager                                                       *)
(***************************************************************************)
\* updateOnlineStatus up to its first await: navigator.onLine is read.  The
\* owner is the operation that awaits the run ("event" for a listener or the
\* interval, which await nothing).
StartedTask(owner, arg) ==
    [owner |-> owner, arg |-> arg, isOnline |-> hostOnline, pc |-> "getAllDrafts",
     allDrafts |-> <<>>]

\* ensureInitialized: the test `!this.initialized` before `await this.initPromise`.
MustAwait(isInitialized) == ~isInitialized

\* ensureInitialized lets the method go on to its body: initialized is set,
\* or the awaited initPromise has resolved.
PastEnsureInitialized == ~MustAwait(initialized) \/ initPromise = "resolved"
\* ensureInitialized throws: the awaited initPromise has rejected.
EnsureInitializedThrows == MustAwait(initialized) /\ initPromise = "rejected"

\* updateOnlineStatus: getAllDrafts resolves.
TaskReadsDrafts(task) ==
    /\ task \in tasks /\ task.pc = "getAllDrafts"
    /\ PastEnsureInitialized
    /\ tasks' = (tasks \ {task}) \cup
                {[task EXCEPT !.pc = "getAllCachedPosts",
                              !.allDrafts = SortDrafts(CursorRows(drafts))]}
    /\ UNCHANGED <<hostOnline, offlineState, draftList, done>>
    /\ UNCHANGED <<storeVars, routerVars, openVars, proberVars, updateVars>>

\* The posts getAllCachedPosts returns at clock reading t.
UnexpiredPosts(store, t) == {r \in store : r.expiresAt > t}

\* The state is rebuilt from the run's readings alone (no `...prev`).
SnapshotAfterNoSpread(prev, task, cachedPosts) ==
    [isOnline |-> task.isOnline, isOfflineMode |-> FALSE,
     hasOfflineData |-> (cachedPosts # {} \/ Len(task.allDrafts) > 0),
     pendingSync |-> Len(task.allDrafts)]

\* The updater handed to setOfflineState: `...prev` with isOnline,
\* hasOfflineData and pendingSync replaced.
SnapshotAfter(prev, task, cachedPosts) ==
    [prev EXCEPT
        !.isOnline = task.isOnline,
        !.hasOfflineData = (cachedPosts # {} \/ Len(task.allDrafts) > 0),
        !.pendingSync = Len(task.allDrafts)]

\* updateOnlineStatus: getAllCachedPosts resolves, the state is set, and the
\* operation awaiting the run returns.
TaskCommits(task) ==
    /\ task \in tasks /\ task.pc = "getAllCachedPosts"
    /\ PastEnsureInitialized
    /\ tasks' = tasks \ {task}
    /\ offlineState' = SnapshotAfter(offlineState, task, UnexpiredPosts(posts, now))
    /\ draftList' = task.allDrafts
    /\ done' = IF task.owner = "event" THEN done
               ELSE [op |-> task.owner, val |-> task.arg,
                     fresh |-> (task.allDrafts = SortDrafts(CursorRows(drafts)))]
    /\ UNCHANGED hostOnline
    /\ UNCHANGED <<storeVars, routerVars, openVars, proberVars, updateVars>>

\* updateOnlineStatus: getStorageInfo resolved, getAllDrafts rejects in
\* ensureInitialized (outside its try block) and the run ends there without
\* setOfflineState.  Nothing catches the rejection of a run started by the
\* effect, a listener or the interval; `done` records how the run ended (not
\* program state).
TaskRejects(task) ==
    /\ task \in tasks /\ task.pc = "getAllDrafts"
    /\ EnsureInitializedThrows
    /\ tasks' = tasks \ {task}
    /\ done' = [op |-> "updateOnlineStatus", owner |-> task.owner,
                err |-> "Failed to open IndexedDB",
                handled |-> (task.owner # "event")]
    /\ UNCHANGED <<hostOnline, offlineState, draftList>>
    /\ UNCHANGED <<storeVars, routerVars, openVars, proberVars, updateVars>>

\* The host reports a connectivity change: the online or offline listener
\* runs updateOnlineStatus.
ConnectivityEvent ==
    /\ Cardinality(tasks) < MaxTasks
    /\ hostOnline' = ~hostOnline
    /\ tasks' = tasks \cup {[StartedTask("event", Null) EXCEPT !.isOnline = ~hostOnline]}
    /\ UNCHANGED <<offlineState, draftList, done>>
    /\ UNCHANGED <<storeVars, routerVars, openVars, proberVars, updateVars>>

\* setInterval(updateOnlineStatus, 30000)
IntervalFires ==
    /\ Cardinality(tasks) < MaxTasks
    /\ tasks' = tasks \cup {StartedTask("event", Null)}
    /\ UNCHANGED <<hostOnline, offlineState, draftList, done>>
    /\ UNCHANGED <<storeVars, routerVars, openVars, proberVars, updateVars>>

\* The hook's saveDraft: the service's saveDraft, then updateOnlineStatus is
\* called and awaited.
HookSaveDraft(draft, s, t1, t2, t3) ==
    /\ Cardinality(tasks) < MaxTasks
    /\ Cardinality(drafts) < MaxHookDrafts
    /\ t1 \in ClockFrom(now) /\ t2 \in ClockFrom(t1) /\ t3 \in ClockFrom(t2)
    /\ LET offlineDraft == NewDraft(draft, s, t1, t2, t3) IN
         /\ drafts' = IDBPut(drafts, "id", offlineDraft)
         /\ ret' = [op |-> "saveDraft", val |-> offlineDraft.id, draft |-> draft,
                    existed |-> (IDBGet(drafts, "id", offlineDraft.id) # Null)]
         /\ tasks' = tasks \cup {StartedTask("saveDraft", offlineDraft.id)}
    /\ now' = t3
    /\ UNCHANGED <<posts, preferences, cache, syncQueue, calls>>
    /\ UNCHANGED <<hostOnline, offlineState, draftList, done>>
    /\ UNCHANGED <<routerVars, openVars, proberVars, updateVars>>

\* The hook's savePostOffline: the service's savePost, then updateOnlineStatus
\* is called and awaited.
HookSavePost(post, t1, t2) ==
    /\ Cardinality(tasks) < MaxTasks
    /\ t1 \in ClockFrom(now) /\ t2 \in ClockFrom(t1)
    /\ posts' = IDBPut(posts, "id",
                       [id |-> post.id, data |-> post, cachedAt |-> t1,
                        expiresAt |-> t2 + CACHE_EXPIRATION_POSTS])
    /\ now' = t2
    /\ ret' = [op |-> "savePost", id |-> post.id]
    /\ tasks' = tasks \cup {StartedTask("savePostOffline", [id |-> post.id])}
    /\ UNCHANGED <<drafts, preferences, cache, syncQueue, calls>>
    /\ UNCHANGED <<hostOnline, offlineState, draftList, done>>
    /\ UNCHANGED <<routerVars, openVars, proberVars, updateVars>>

\* The hook's updateDraft: the service's updateDraft; its error is thrown on
\* to the caller, otherwise updateOnlineStatus is called and awaited.  `pre`,
\* `post` and `existed` record the table before and after the service call
\* and whether it held the id (not program state).
HookUpdateDraft(id, updates, t) ==
    /\ t \in ClockFrom(now)
    /\ LET result == UpdatedDrafts(drafts, id, updates, t)
           outcome == [id |-> id, err |-> result.err,
                       pre |-> drafts, post |-> result.drafts]
       IN
         /\ drafts' = result.drafts
         /\ ret' = [op |-> "updateDraft", id |-> id, err |-> result.err]
         /\ IF result.err = ""
            THEN /\ Cardinality(tasks) < MaxTasks
                 /\ now' = t
                 /\ tasks' = tasks \cup
                      {StartedTask("updateDraft",
                                   [id |-> id, err |-> "",
                                    existed |-> (IDBGet(drafts, "id", id) # Null)])}
                 /\ UNCHANGED done
            ELSE /\ t = now
                 /\ done' = [op |-> "updateDraft", val |-> outcome, fresh |-> TRUE]
                 /\ UNCHANGED <<now, tasks>>
    /\ UNCHANGED <<posts, preferences, cache, syncQueue, calls>>
    /\ UNCHANGED <<hostOnline, offlineState, draftList>>
    /\ UNCHANGED <<routerVars, openVars, proberVars, updateVars>>

\* The hook's deleteDraft: the service's deleteDraft, then updateOnlineStatus
\* is called and awaited.
HookDeleteDraft(id) ==
    /\ Cardinality(tasks) < MaxTasks
    /\ drafts' = IDBDelete(drafts, "id", id)
    /\ ret' = [op |-> "deleteDraft", id |-> id, err |-> ""]
    /\ tasks' = tasks \cup
                 {StartedTask("deleteDraft",
                              [id |-> id, err |-> "",
                               existed |-> (IDBGet(drafts, "id", id) # Null)])}
    /\ UNCHANGED <<now, posts, preferences, cache, syncQueue, calls>>
    /\ UNCHANGED <<hostOnline, offlineState, draftList, done>>
    /\ UNCHANGED <<routerVars, openVars, proberVars, updateVars>>

\* The hook's clearAllData: the service's clearAllData, then
\* updateOnlineStatus is called and awaited.
HookClearAllData ==
    /\ Cardinality(tasks) < MaxTasks
    /\ posts' = {}
    /\ drafts' = {}
    /\ preferences' = {}
    /\ cache' = {}
    /\ syncQueue' = {}
    /\ ret' = [op |-> "clearAllData"]
    /\ tasks' = tasks \cup {StartedTask("clearAllData", Null)}
    /\ UNCHANGED <<now, calls>>
    /\ UNCHANGED <<hostOnline, offlineState, draftList, done>>
    /\ UNCHANGED <<routerVars, openVars, proberVars, updateVars>>

\* syncPendingData: false when the state says offline; otherwise nothing is
\* synced (TODO in the source), updateOnlineStatus is awaited and true is
\* returned.  `pendingBefore` records pendingSync at the call (not program
\* state), and so do `hostOnline` (navigator.onLine at the call) and `before`
\* (offlineState at the call).
SyncPendingData ==
    /\ IF ~offlineState.isOnline
       THEN /\ done' = [op |-> "syncPendingData",
                         val |-> [ok |-> FALSE, hostOnline |-> hostOnline,
                                  before |-> offlineState, after |-> offlineState],
                         fresh |-> TRUE]
            /\ UNCHANGED tasks
       ELSE /\ Cardinality(tasks) < MaxTasks
            /\ tasks' = tasks \cup
                 {StartedTask("syncPendingData",
                              [ok |-> TRUE, pendingBefore |-> offlineState.pendingSync,
                               hostOnline |-> hostOnline, before |-> offlineState])}
            /\ UNCHANGED done
    /\ UNCHANGED <<hostOnline, offlineState, draftList>>
    /\ UNCHANGED <<storeVars, routerVars, openVars, proberVars, updateVars>>

enableOfflineMode ==
    /\ offlineState' = [offlineState EXCEPT !.isOfflineMode = TRUE]
    /\ UNCHANGED <<hostOnline, draftList, tasks, done>>
    /\ UNCHANGED <<storeVars, routerVars, openVars, proberVars, updateVars>>

disableOfflineMode ==
    /\ offlineState' = [offlineState EXCEPT !.isOfflineMode = FALSE]
    /\ UNCHANGED <<hostOnline, draftList, tasks, done>>
    /\ UNCHANGED <<storeVars, routerVars, openVars, proberVars, updateVars>>

\* The hook is mounted with the host online or offline; its effect runs
\* updateOnlineStatus once.  storageInfo, which only carries the host's
\* storage estimate, is left out of offlineState.
InitCoord ==
    /\ hostOnline \in BOOLEAN
    /\ offlineState = [isOnline |-> hostOnline, isOfflineMode |-> FALSE,
                       hasOfflineData |-> FALSE, pendingSync |-> 0]
    /\ draftList = <<>>
    /\ tasks = {StartedTask("event", Null)}
    /\ done = [op |-> "none"]

\* The request a fetch event carries, for the dispatch alone.
DispatchHosts == {SelfHost, "esm.sh", "relay.example"}
DispatchSegments == {"api", "posts", "nostr", "img"}
DispatchPaths ==
    {<<>>} \cup {<<a>> : a \in DispatchSegments}
           \cup {<<a, b>> : a \in DispatchSegments, b \in DispatchSegments}
DispatchRequests ==
    {Request(m, Url(sch, h, p, e, q)) :
        m \in {"GET", "POST"}, sch \in {"https", "chrome-extension"},
        h \in DispatchHosts, p \in DispatchPaths,
        e \in {"", "png", "PNG", "woff", "js"}, q \in {{}, {"event"}}}

\* The fetch listener alone: the handler it hands the request to.
Dispatch(req) ==
    /\ routed' = [req |-> req, handler |-> Classify(req)]
    /\ UNCHANGED <<caches, handlers, refreshes, puts, fetches, answer, served>>
    /\ UNCHANGED <<storeVars, coordVars, activated, abandoned, late, openVars, proberVars, updateVars>>

(***************************************************************************)
(* The singleton and its database open (offline-storage.service.ts 69-138) *)
(***************************************************************************)
DB_NAME == "jumble-offline-storage"

\* The methods whose body works on an object store.
TableOperations ==
    {"savePost", "getPost", "getAllCachedPosts", "saveDraft", "updateDraft",
     "getDraft", "getAllDrafts", "deleteDraft", "savePreferences",
     "getPreferences", "clearAllData"}
StoreOperations == TableOperations \cup {"getStorageInfo"}
\* The methods whose catch block returns null or [] instead of rethrowing.
SwallowingOperations ==
    {"getPost", "getAllCachedPosts", "getDraft", "getAllDrafts", "getPreferences"}

\* getInstance constructs always (the instance test is dropped).
MustConstructAlways(existing) == TRUE
\* getInstance: the test `!OfflineStorageService.instance`.
MustConstruct(existing) == ~existing

\* What a method's body does once it is past ensureInitialized: this.db!
\* is dereferenced; on a null db the TypeError is thrown on, or swallowed by
\* the catch blocks that return null or [].
TableOperation(op, database) ==
    IF database = "open"
    THEN [touched |-> "open", result |-> "value"]
    ELSE [touched |-> "null",
          result |-> IF op \in SwallowingOperations THEN "value" ELSE "failure"]

\* A call record: the method, where it stands, the open it awaits (0: none),
\* the state of initPromise when it was called, the db it met, its result.
Operation(op, stage, awaits, issuedWhen, touched, result) ==
    [op |-> op, stage |-> stage, awaits |-> awaits, issuedWhen |-> issuedWhen,
     touched |-> touched, result |-> result]

\* getInstance; the constructor runs init() up to its await, which issues
\* indexedDB.open.
GetInstance ==
    /\ opens < MaxOpens
    /\ IF MustConstruct(instance)
       THEN /\ instance' = TRUE
            /\ initialized' = FALSE
            /\ db' = "null"
            /\ openRequest' = "pending"
            /\ initPromise' = "pending"
            /\ opens' = opens + 1
       ELSE UNCHANGED <<instance, initialized, db, openRequest, initPromise, opens>>
    /\ UNCHANGED operations
    /\ UNCHANGED <<storeVars, routerVars, coordVars, proberVars, updateVars>>

\* request.onsuccess: the database exists (the open created it when it did
\* not) and the inner promise resolves with request.result.
RequestSucceeds ==
    /\ openRequest = "pending"
    /\ openRequest' = "success"
    /\ databases' = databases \cup {DB_NAME}
    /\ UNCHANGED <<instance, db, initialized, initPromise, opens, operations>>
    /\ UNCHANGED <<localStorage, sessionStorage, prober, report>>
    /\ UNCHANGED <<storeVars, routerVars, coordVars, updateVars>>

\* request.onerror: the inner promise rejects.
RequestFails ==
    /\ openRequest = "pending"
    /\ openRequest' = "error"
    /\ UNCHANGED <<instance, db, initialized, initPromise, opens, operations>>
    /\ UNCHANGED <<storeVars, routerVars, coordVars, proberVars, updateVars>>

\* init() after its await: db and initialized are set and initPromise
\* resolves (the timers it starts do nothing to the tables by themselves).
InitCompletes ==
    /\ openRequest = "success" /\ initPromise = "pending"
    /\ db' = "open"
    /\ initialized' = TRUE
    /\ initPromise' = "resolved"
    /\ UNCHANGED <<instance, openRequest, opens, operations>>
    /\ UNCHANGED <<storeVars, routerVars, coordVars, proberVars, updateVars>>

\* init() after its await, in the catch block: the error is rethrown and
\* initPromise rejects.
InitThrows ==
    /\ openRequest = "error" /\ initPromise = "pending"
    /\ initPromise' = "rejected"
    /\ UNCHANGED <<instance, openRequest, db, initialized, opens, operations>>
    /\ UNCHANGED <<storeVars, routerVars, coordVars, proberVars, updateVars>>

\* A method of the instance is called.  getStorageInfo asks
\* navigator.storage and returns; every other method starts with
\* ensureInitialized and either waits for initPromise or goes on to its body.
Invoke(op) ==
    /\ instance
    /\ Len(operations) < MaxOperations
    /\ operations' = Append(operations,
          IF op = "getStorageInfo"
          THEN Operation(op, "ended", 0, initPromise, "no", "value")
          ELSE IF MustAwait(initialized)
          THEN Operation(op, "awaiting", opens, initPromise, "no", "pending")
          ELSE LET body == TableOperation(op, db) IN
               Operation(op, "ended", 0, initPromise, body.touched, body.result))
    /\ UNCHANGED <<instance, openRequest, db, initialized, initPromise, opens>>
    /\ UNCHANGED <<storeVars, routerVars, coordVars, proberVars, updateVars>>

\* initPromise has settled and a method waiting in ensureInitialized goes
\* on: to its body when the promise resolved, to a rejection otherwise.
Resume(i) ==
    /\ operations[i].stage = "awaiting"
    /\ initPromise \in {"resolved", "rejected"}
    /\ LET call == operations[i]
           body == TableOperation(call.op, db) IN
         operations' = [operations EXCEPT ![i] =
            IF initPromise = "resolved"
            THEN Operation(call.op, "ended", call.awaits, call.issuedWhen,
                           body.touched, body.result)
            ELSE Operation(call.op, "ended", call.awaits, call.issuedWhen,
                           "no", "failure")]
    /\ UNCHANGED <<instance, openRequest, db, initialized, initPromise, opens>>
    /\ UNCHANGED <<storeVars, routerVars, coordVars, proberVars, updateVars>>

\* Before the module is loaded.
InitUnopened ==
    /\ instance = FALSE
    /\ openRequest = "none"
    /\ db = "null"
    /\ initialized = FALSE
    /\ initPromise = "none"
    /\ opens = 0
    /\ operations = <<>>

\* After the module was loaded and the open succeeded.
InitOpened ==
    /\ instance = TRUE
    /\ openRequest = "success"
    /\ db = "open"
    /\ initialized = TRUE
    /\ initPromise = "resolved"
    /\ opens = 1
    /\ operations = <<>>

(***************************************************************************)
(* CachePersistenceService (cache-persistence.service.ts)                  *)
(***************************************************************************)
TEST_CACHE_NAME == "persistence-test-cache"
TEST_KEY == "persistence-test"
\* GET /persistence-test-url, the request cache.add builds from the path.
TestUrl == Request("GET", Url("https", SelfHost, <<"persistence-test-url">>, "", {}))
\* Keys the page's compatibility script leaves in the two storages.
FALLBACK_KEY == "jumble-fallback-cache"
SESSION_KEY == "jumble-session-cache"

Idle == [op |-> "none"]

\* The loop of testCachePersistence: caches.open on every listed name.
RECURSIVE OpenAll(_, _)
OpenAll(cs, names) ==
    IF names = {} THEN cs
    ELSE LET name == CHOOSE n \in names : TRUE IN
         OpenAll(OpenCache(cs, name), names \ {name})

\* One CacheTestResult per listed name.
CacheResults(cs, names) ==
    {[cacheName |-> name, urls |-> DOMAIN cs[name],
      persistent |-> (DOMAIN cs[name] # {})] : name \in names}

\* The number of records in the object stores of the database.
Records ==
    Cardinality(posts) + Cardinality(drafts) + Cardinality(preferences)
        + Cardinality(cache) + Cardinality(syncQueue)

\* What a storage test returns for a storage holding `keys`.
KeysResult(keys) == [available |-> (keys # {}), keys |-> keys]

\* checkTestData: caches.open('persistence-test-cache').
ProbeCache(cs) == OpenCache(cs, TEST_CACHE_NAME)

\* testCachePersistence up to the answer of caches.keys().
TestCachePersistenceLists ==
    /\ prober = Idle
    /\ prober' = [op |-> "testCachePersistence", cacheNames |-> DOMAIN caches]
    /\ UNCHANGED <<databases, localStorage, sessionStorage, report>>
    /\ UNCHANGED <<storeVars, routerVars, coordVars, openVars, updateVars>>

\* testCachePersistence: the loop over the listed names.  `before` and
\* `after` record the caches around the step (not program state).
TestCachePersistence ==
    /\ prober.op = "testCachePersistence"
    /\ LET opened == OpenAll(caches, prober.cacheNames) IN
         /\ caches' = opened
         /\ report' = [op |-> "testCachePersistence",
                       val |-> CacheResults(opened, prober.cacheNames),
                       before |-> caches, after |-> opened]
    /\ prober' = Idle
    /\ UNCHANGED <<databases, localStorage, sessionStorage>>
    /\ UNCHANGED <<handlers, refreshes, puts, fetches, answer, served, routed, activated, abandoned, late>>
    /\ UNCHANGED <<storeVars, coordVars, openVars, updateVars>>

\* testIndexedDBPersistence: indexedDB.databases().
TestIndexedDBPersistence ==
    /\ prober = Idle
    /\ report' = [op |-> "testIndexedDBPersistence",
                  val |-> [available |-> (databases # {}), databases |-> databases],
                  before |-> caches, after |-> caches]
    /\ UNCHANGED <<databases, localStorage, sessionStorage, prober>>
    /\ UNCHANGED <<storeVars, routerVars, coordVars, openVars, updateVars>>

\* testLocalStoragePersistence
TestLocalStoragePersistence ==
    /\ prober = Idle
    /\ report' = [op |-> "testLocalStoragePersistence",
                  val |-> KeysResult(localStorage),
                  before |-> caches, after |-> caches]
    /\ UNCHANGED <<databases, localStorage, sessionStorage, prober>>
    /\ UNCHANGED <<storeVars, routerVars, coordVars, openVars, updateVars>>

\* testSessionStoragePersistence
TestSessionStoragePersistence ==
    /\ prober = Idle
    /\ report' = [op |-> "testSessionStoragePersistence",
                  val |-> KeysResult(sessionStorage),
                  before |-> caches, after |-> caches]
    /\ UNCHANGED <<databases, localStorage, sessionStorage, prober>>
    /\ UNCHANGED <<storeVars, routerVars, coordVars, openVars, updateVars>>

\* testAllPersistence up to the awaits of its four tests: the two storage
\* tests have run to their end, caches.keys() and indexedDB.databases() have
\* answered.
TestAllPersistenceLists ==
    /\ prober = Idle
    /\ prober' = [op |-> "testAllPersistence", cacheNames |-> DOMAIN caches,
                  indexedDB |-> [available |-> (databases # {}), databases |-> databases],
                  localStorage |-> KeysResult(localStorage),
                  sessionStorage |-> KeysResult(sessionStorage)]
    /\ UNCHANGED <<databases, localStorage, sessionStorage, report>>
    /\ UNCHANGED <<storeVars, routerVars, coordVars, openVars, updateVars>>

\* testAllPersistence: the cache loop ends and the result is assembled.
TestAllPersistence ==
    /\ prober.op = "testAllPersistence"
    /\ LET opened == OpenAll(caches, prober.cacheNames)
           results == CacheResults(opened, prober.cacheNames) IN
         /\ caches' = opened
         /\ report' = [op |-> "testAllPersistence",
                       val |-> [cache |-> results,
                                indexedDB |-> prober.indexedDB,
                                localStorage |-> prober.localStorage,
                                sessionStorage |-> prober.sessionStorage,
                                persistent |-> (\/ \E c \in results : c.persistent
                                                \/ prober.indexedDB.available
                                                \/ prober.localStorage.available)],
                       before |-> caches, after |-> opened]
    /\ prober' = Idle
    /\ UNCHANGED <<databases, localStorage, sessionStorage>>
    /\ UNCHANGED <<handlers, refreshes, puts, fetches, answer, served, routed, activated, abandoned, late>>
    /\ UNCHANGED <<storeVars, coordVars, openVars, updateVars>>

\* addTestData: the key is set, the probe cache is opened and cache.add
\* fetches the probe url; the response is stored when it is ok, otherwise
\* add rejects and the error is thrown on.
AddTestData(ok) ==
    /\ prober = Idle
    /\ localStorage' = localStorage \cup {TEST_KEY}
    /\ fetches < MaxFetches
    /\ fetches' = fetches + 1
    /\ caches' = IF ok THEN CachePut(caches, TEST_CACHE_NAME, TestUrl,
                                      Response(TRUE, fetches + 1))
                  ELSE OpenCache(caches, TEST_CACHE_NAME)
    /\ report' = [op |-> "addTestData", val |-> [ok |-> ok],
                  before |-> caches, after |-> caches']
    /\ UNCHANGED <<databases, sessionStorage, prober>>
    /\ UNCHANGED <<handlers, refreshes, puts, answer, served, routed, activated, abandoned, late>>
    /\ UNCHANGED <<storeVars, coordVars, openVars, updateVars>>

\* checkTestData: the key is read, the probe cache is opened and matched.
CheckTestData ==
    /\ prober = Idle
    /\ LET opened == ProbeCache(caches) IN
         /\ caches' = opened
         /\ report' = [op |-> "checkTestData",
                       val |-> [localStorage |-> (TEST_KEY \in localStorage),
                                cache |-> (CacheMatch(opened, TEST_CACHE_NAME, TestUrl) # Null)],
                       before |-> caches, after |-> opened]
    /\ UNCHANGED <<databases, localStorage, sessionStorage, prober>>
    /\ UNCHANGED <<handlers, refreshes, puts, fetches, answer, served, routed, activated, abandoned, late>>
    /\ UNCHANGED <<storeVars, coordVars, openVars, updateVars>>

\* The service's clearAllData up to the answer of caches.keys().
PurgeLists ==
    /\ prober = Idle
    /\ prober' = [op |-> "clearAllData", pc |-> "caches.delete",
                  cacheNames |-> DOMAIN caches]
    /\ UNCHANGED <<databases, localStorage, sessionStorage, report>>
    /\ UNCHANGED <<storeVars, routerVars, coordVars, openVars, updateVars>>

\* clearAllData: every listed cache is deleted, then indexedDB.databases()
\* answers.
PurgeDeletesCaches ==
    /\ prober.op = "clearAllData" /\ prober.pc = "caches.delete"
    /\ caches' = [name \in DOMAIN caches \ prober.cacheNames |-> caches[name]]
    /\ prober' = [op |-> "clearAllData", pc |-> "deleteDatabase",
                  databases |-> databases]
    /\ UNCHANGED <<databases, localStorage, sessionStorage, report>>
    /\ UNCHANGED <<handlers, refreshes, puts, fetches, answer, served, routed, activated, abandoned, late>>
    /\ UNCHANGED <<storeVars, coordVars, openVars, updateVars>>

\* clearAllData: every deleteDatabase request succeeds, which a request on
\* a database with an open connection does not do as long as the connection
\* stays open (the service never closes its own); then both storages are
\* cleared and the call returns.  `caches`, `records`, `localStorage` and
\* `sessionStorage` of the report record what is left at the return.
PurgeCompletes ==
    /\ prober.op = "clearAllData" /\ prober.pc = "deleteDatabase"
    /\ (DB_NAME \in prober.databases /\ DB_NAME \in databases) => db # "open"
    /\ databases' = databases \ prober.databases
    /\ IF DB_NAME \in prober.databases
       THEN /\ posts' = {} /\ drafts' = {} /\ preferences' = {}
            /\ cache' = {} /\ syncQueue' = {}
       ELSE UNCHANGED <<posts, drafts, preferences, cache, syncQueue>>
    /\ localStorage' = {}
    /\ sessionStorage' = {}
    /\ report' = [op |-> "clearAllData",
                  val |-> [ok |-> TRUE, caches |-> DOMAIN caches,
                           records |-> IF DB_NAME \in prober.databases THEN 0 ELSE Records,
                           localStorage |-> {}, sessionStorage |-> {}],
                  before |-> caches, after |-> caches]
    /\ prober' = Idle
    /\ UNCHANGED <<now, calls, ret>>
    /\ UNCHANGED <<routerVars, coordVars, openVars, updateVars>>

\* clearAllData: a deleteDatabase request fires onerror; the error is thrown
\* on and the storages are not cleared.
PurgeFails ==
    /\ prober.op = "clearAllData" /\ prober.pc = "deleteDatabase"
    /\ prober.databases # {}
    /\ report' = [op |-> "clearAllData",
                  val |-> [ok |-> FALSE, caches |-> DOMAIN caches, records |-> Records,
                           localStorage |-> localStorage,
                           sessionStorage |-> sessionStorage],
                  before |-> caches, after |-> caches]
    /\ prober' = Idle
    /\ UNCHANGED <<databases, localStorage, sessionStorage>>
    /\ UNCHANGED <<storeVars, routerVars, coordVars, openVars, updateVars>>

\* No call of the service is in flight and the two storages are empty.
InitProber ==
    /\ databases = {DB_NAME}
    /\ localStorage = {}
    /\ sessionStorage = {}
    /\ prober = Idle
    /\ report = Idle

Init == InitStore /\ InitRouter /\ InitCoord /\ InitOpened /\ InitProber

\* The worker alone: the page is online and the hook does nothing.
InitWorker == Init /\ hostOnline = TRUE /\ caches \in {Precached, NotPrecached}
\* The hook and the store alone: the worker precached and gets no request.
InitHook == Init /\ caches = Precached
\* The store alone.
InitIdle == Init /\ hostOnline = TRUE /\ caches = Precached

\* The database open and the method calls around it.
InitLoading ==
    /\ InitStore /\ InitRouter /\ InitCoord /\ InitUnopened
    /\ databases = {} /\ localStorage = {} /\ sessionStorage = {}
    /\ prober = [op |-> "none"] /\ report = [op |-> "none"]
    /\ hostOnline = TRUE /\ caches = Precached
NextOpen ==
    \/ GetInstance
    \/ RequestSucceeds
    \/ RequestFails
    \/ InitCompletes
    \/ InitThrows
    \/ \E op \in StoreOperations : Invoke(op)
    \/ \E i \in DOMAIN operations : Resume(i)
SpecOpen == InitLoading /\ [][NextOpen]_vars

\* The open failed in this session; what earlier sessions wrote is on disk.
InitOpenFailed ==
    /\ instance = TRUE
    /\ openRequest = "error"
    /\ db = "null"
    /\ initialized = FALSE
    /\ initPromise = "rejected"
    /\ opens = 1
    /\ operations = <<>>

\* A row savePost wrote at clock reading 0.
StoredPost ==
    [id |-> "p1", data |-> [id |-> "p1", author |-> "alice"], cachedAt |-> 0,
     expiresAt |-> CACHE_EXPIRATION_POSTS]

\* CachePersistenceService beside the worker: the database holds what an
\* earlier session wrote, the open of this session succeeded or failed, and
\* the page's compatibility script has stored its keys or has not.
InitAudit ==
    /\ now = 0
    /\ posts \in {{}, {StoredPost}}
    /\ drafts = {} /\ preferences = {} /\ cache = {} /\ syncQueue = {}
    /\ calls = {}
    /\ ret = [op |-> "none"]
    /\ InitRouter /\ caches = Precached
    /\ InitCoord /\ hostOnline = TRUE
    /\ (InitOpened \/ InitOpenFailed)
    /\ databases = {DB_NAME}
    /\ localStorage \in {{}, {FALLBACK_KEY}}
    /\ sessionStorage \in {{}, {SESSION_KEY}}
    /\ prober = Idle
    /\ report = Idle
AuditRequests == {LogoPng}
NextAudit ==
    \/ TestCachePersistenceLists
    \/ TestCachePersistence
    \/ TestIndexedDBPersistence
    \/ TestLocalStoragePersistence
    \/ TestSessionStoragePersistence
    \/ TestAllPersistenceLists
    \/ TestAllPersistence
    \/ \E ok \in BOOLEAN : AddTestData(ok)
    \/ CheckTestData
    \/ PurgeLists
    \/ PurgeDeletesCaches
    \/ PurgeCompletes
    \/ PurgeFails
    \/ \E req \in AuditRequests : FetchEvent(req)
    \/ \E h \in handlers, ok \in BOOLEAN : NetworkResponds(h, ok)
    \/ \E p \in puts : PutCommits(p)
SpecAudit == InitAudit /\ [][NextAudit]_vars

NextRouter ==
    \/ \E req \in RouterRequests : FetchEvent(req)
    \/ \E h \in handlers, ok \in BOOLEAN : NetworkResponds(h, ok)
    \/ \E h \in handlers : NetworkFails(h)
    \/ \E h \in handlers : NetworkTimeout(h)
    \/ \E a \in abandoned, ok \in BOOLEAN : AbandonedSettles(a, ok)
    \/ \E r \in refreshes, outcome \in {"ok", "other"} : RefreshSettles(r, outcome)
    \/ \E p \in puts : PutCommits(p)
SpecRouter == InitWorker /\ [][NextRouter]_vars

\* A worker that takes over from an earlier one while requests go on.
InitGenerations == Init /\ hostOnline = TRUE /\ caches = Upgraded
GenerationRequests == {LogoPng, RelayInfo, PostGet}
NextGenerations ==
    \/ Activate
    \/ \E req \in GenerationRequests : FetchEvent(req)
    \/ \E h \in handlers, ok \in BOOLEAN : NetworkResponds(h, ok)
    \/ \E h \in handlers : NetworkFails(h)
    \/ \E r \in refreshes, outcome \in {"ok", "other"} : RefreshSettles(r, outcome)
    \/ \E p \in puts : PutCommits(p)
SpecGenerations == InitGenerations /\ [][NextGenerations]_vars

\* The worker where what the worker itself schedules does happen: a timer that
\* was set fires and a put that was issued commits.  The network owes nothing:
\* a fetch may stay unsettled forever.
SpecRouterFair ==
    /\ InitWorker /\ [][NextRouter]_vars
    /\ WF_vars(\E h \in handlers : NetworkTimeout(h))
    /\ WF_vars(\E p \in puts : PutCommits(p))

NextDispatch == \E req \in DispatchRequests : Dispatch(req)
SpecDispatch == InitIdle /\ [][NextDispatch]_vars

\* The ids a draft call may name: those in the table and one that is not.
MissingDraftId == DraftId(0, 0)
CallIds == {r.id : r \in drafts} \cup {MissingDraftId}

\* One draft input, where the payload does not matter.
OneDraft == {d \in DraftInputs : d.content = "c1"}
OneUpdate == {u \in UpdateInputs : "content" \in DOMAIN u}

\* updateDraft calls that overlap, beside saveDraft and deleteDraft, within
\* one reading of the clock.
NextUpdates ==
    \/ \E draft \in OneDraft : SaveDraft(draft, 1, now, now, now)
    \/ \E id \in CallIds, u \in UpdateInputs : UpdateDraftGet(id, u, now)
    \/ \E call \in calls : UpdateDraftPut(call)
    \/ \E id \in CallIds : DeleteDraft(id)
SpecUpdates == InitIdle /\ [][NextUpdates]_vars

NextCoord ==
    \/ ConnectivityEvent
    \/ IntervalFires
    \/ \E task \in tasks : TaskReadsDrafts(task)
    \/ \E task \in tasks : TaskCommits(task)
    \/ \E draft \in OneDraft, t \in Times : HookSaveDraft(draft, 1, t, t, t)
    \/ SyncPendingData
    \/ enableOfflineMode
    \/ disableOfflineMode
SpecCoord == InitHook /\ [][NextCoord]_vars

\* The hook's draft operations and clearAllData with a caller that awaits
\* each call before the next, while one updateOnlineStatus run by the mount
\* or the interval may be in flight.
NoCallInFlight == \A task \in tasks : task.owner = "event"
NoEventInFlight == \A task \in tasks : task.owner # "event"
NextHookDrafts ==
    \/ NoEventInFlight /\ IntervalFires
    \/ \E task \in tasks : TaskReadsDrafts(task)
    \/ \E task \in tasks : TaskCommits(task)
    \/ \E draft \in OneDraft, s \in Suffixes :
          /\ NoCallInFlight /\ Cardinality(drafts) < MaxDrafts
          /\ HookSaveDraft(draft, s, now, now, now)
    \/ \E id \in CallIds, u \in OneUpdate :
          NoCallInFlight /\ HookUpdateDraft(id, u, now)
    \/ \E id \in CallIds : NoCallInFlight /\ HookDeleteDraft(id)
    \/ NoCallInFlight /\ HookClearAllData
SpecHookDrafts == InitIdle /\ [][NextHookDrafts]_vars

PostsNext(inputs) ==
    \/ \E post \in inputs, t1 \in Times, t2 \in Times : SavePost(post, t1, t2)
    \/ \E id \in PostIds, t \in Times : GetPostRead(id, t)
    \/ \E c \in calls : GetPostDelete(c)

DraftsNext(inputs, updates) ==
    \/ \E draft \in inputs, s \in Suffixes, t1 \in Times, t2 \in Times, t3 \in Times :
          SaveDraft(draft, s, t1, t2, t3)
    \/ \E id \in CallIds, u \in updates, t \in Times : UpdateDraft(id, u, t)
    \/ \E id \in CallIds : GetDraft(id)
    \/ GetAllDrafts
    \/ \E id \in CallIds : DeleteDraft(id)

PreferencesNext(inputs) ==
    \/ \E prefs \in inputs, t \in Times : SavePreferences(prefs, t)
    \/ GetPreferences

MaintenanceNext ==
    \/ \E t1 \in Times, t2 \in Times : CleanupExpiredData(t1, t2)
    \/ ClearAllData
    \/ \E t \in Times : Tick(t)

\* The posts API with the background cleanup, clearAllData and the clock.
NextPosts == PostsNext(PostInputs) \/ MaintenanceNext
SpecPosts == InitIdle /\ [][NextPosts]_vars

\* The drafts API with the background cleanup, clearAllData and the clock.
NextDrafts == DraftsNext(OneDraft, OneUpdate) \/ MaintenanceNext
SpecDrafts == InitIdle /\ [][NextDrafts]_vars

\* The preferences API with the background cleanup, clearAllData and the clock.
NextPreferences == PreferencesNext(PreferenceInputs) \/ MaintenanceNext
SpecPreferences == InitIdle /\ [][NextPreferences]_vars

\* The writers of every table with the cleanup, clearAllData and the clock.
OnePost == {p \in PostInputs : p.author = "alice"}
OnePreference == {p \in PreferenceInputs : p.theme = "dark"}
Next ==
    \/ \E post \in OnePost, t \in Times : SavePost(post, t, t)
    \/ \E draft \in OneDraft, s \in Suffixes, t \in Times : SaveDraft(draft, s, t, t, t)
    \/ \E prefs \in OnePreference, t \in Times : SavePreferences(prefs, t)
    \/ MaintenanceNext
Spec == InitIdle /\ [][Next]_vars

\* Every operation of the hook that touches offlineState, with a caller that
\* awaits each call before the next and one listener or interval run in
\* flight at most.
NextOfflineMode ==
    \/ NoEventInFlight /\ ConnectivityEvent
    \/ NoEventInFlight /\ IntervalFires
    \/ \E task \in tasks : TaskReadsDrafts(task)
    \/ \E task \in tasks : TaskCommits(task)
    \/ \E draft \in OneDraft :
          /\ NoCallInFlight /\ Cardinality(drafts) < MaxDrafts
          /\ HookSaveDraft(draft, 1, now, now, now)
    \/ \E id \in CallIds, u \in OneUpdate : NoCallInFlight /\ HookUpdateDraft(id, u, now)
    \/ \E id \in CallIds : NoCallInFlight /\ HookDeleteDraft(id)
    \/ NoCallInFlight /\ HookClearAllData
    \/ \E post \in OnePost : NoCallInFlight /\ HookSavePost(post, now, now)
    \/ NoCallInFlight /\ SyncPendingData
    \/ enableOfflineMode
    \/ disableOfflineMode
SpecOfflineMode == InitIdle /\ [][NextOfflineMode]_vars

(***************************************************************************)
(* Properties of the store                                                 *)
(***************************************************************************)
\* C1: a completed getPost(id) returned the payload of the row it read if and
\* only if its clock reading was before that row's expiresAt; the payload is
\* the one of the row still stored; when it returned null (no row, or a row
\* read at or after its expiresAt) the posts table holds no row for id.
C1_GetPostFreshOrGone ==
    ret.op = "getPost" =>
        /\ (ret.val # Null) <=> (ret.row # Null /\ ret.at < ret.row.expiresAt)
        /\ ret.val # Null =>
              /\ ret.val = ret.row.data
              /\ ret.val.id = ret.id
              /\ ret.row \in posts
        /\ ret.val = Null => ~\E r \in posts : r.id = ret.id

\* A getPost that read a row exactly at its expiresAt, deleted it and
\* returned null.
C1_Witness ==
    /\ ret.op = "getPost"
    /\ ret.row # Null
    /\ ret.at = ret.row.expiresAt
    /\ ret.val = Null

\* C2 (as claimed): a GET of a same-origin image dispatched after an earlier
\* GET of the same URL was answered with a status-ok network response finds
\* the image bucket's entry: it issues no network fetch and is answered from
\* the cache.
C2_SecondGetFromCache ==
    /\ \A h \in handlers :
          (h.handler = "handleImageRequest" /\ h.afterOk) => ~h.fetched
    /\ (answer.source # "none" /\ answer.handler = "handleImageRequest"
        /\ answer.afterOk) =>
          answer.source = "cache" /\ ~answer.fetched

\* C3: an API handler whose network call passed the 5 second timeout has
\* settled and no longer awaits the network; its answer is the response the
\* API bucket held for the request, or a failure when the bucket held none.
C3_ApiTimeoutFallsBack ==
    (answer.source # "none" /\ answer.handler = "handleAPIRequest"
     /\ answer.timedOut) =>
        /\ ~\E h \in handlers : h.fetched /\ h.n = answer.n
        /\ IF answer.cached # Null
           THEN answer.source = "cache" /\ answer.resp = answer.cached
           ELSE answer.source = "failure"

\* A GET /api/feed that timed out and was answered with the response an
\* earlier GET /api/feed had stored in the API bucket.
C3_Witness ==
    /\ answer.source = "cache"
    /\ answer.handler = "handleAPIRequest"
    /\ answer.req = ApiFeed
    /\ answer.timedOut
    /\ answer.resp = CacheMatch(caches, API_CACHE_NAME, ApiFeed)

\* C4 (as claimed): when syncPendingData has returned true after a call made
\* with pendingSync = 3, the state has pendingSync = 0 and isOnline = true.
C4_SyncClearsPending ==
    (done.op = "syncPendingData" /\ done.val.ok /\ done.val.pendingBefore = 3) =>
        offlineState.pendingSync = 0 /\ offlineState.isOnline

\* C5 (as claimed): the handler a request is given to is that of the first
\* matching rule in the order image, font and static (same origin only), then
\* API, post and module host for any origin, then the same-origin and the
\* cross-origin default.
C5_FirstMatchAnyOrigin ==
    (routed.handler # "none") =>
        LET request == routed.req
            sameOrigin == request.url.host = SelfHost
        IN  routed.handler =
              IF sameOrigin /\ isImageRequest(request) THEN "handleImageRequest"
              ELSE IF sameOrigin /\ isFontRequest(request) THEN "handleFontRequest"
              ELSE IF sameOrigin /\ isStaticRequest(request) THEN "handleStaticRequest"
              ELSE IF isAPIRequest(request) THEN "handleAPIRequest"
              ELSE IF isPostRequest(request) THEN "handlePostRequest"
              ELSE IF isESMRequest(request) THEN "handleESMRequest"
              ELSE IF sameOrigin THEN "handleNetworkFirstRequest"
              ELSE "handleCrossOriginRequest"

\* C6 (as claimed): the id a saveDraft returns is not the key of a draft row
\* written by an earlier saveDraft, so its put replaces no row.
C6_SaveDraftIdIsNew ==
    ret.op = "saveDraft" => ~ret.existed

\* C7: what getAllDrafts returned holds every row of the drafts table exactly
\* once and nothing else, with lastModified non-increasing.
C7_GetAllDraftsCompleteSorted ==
    ret.op = "getAllDrafts" =>
        /\ Len(ret.val) = Cardinality(drafts)
        /\ \A d \in drafts : \E i \in 1..Len(ret.val) : ret.val[i] = d
        /\ \A i \in 1..Len(ret.val) : ret.val[i] \in drafts
        /\ \A i, j \in 1..Len(ret.val) :
              i < j => ret.val[i].lastModified >= ret.val[j].lastModified

\* A getAllDrafts whose sort moved the later key in front of the earlier one.
C7_Witness ==
    /\ ret.op = "getAllDrafts"
    /\ Len(ret.val) = 2
    /\ ret.val[1].lastModified > ret.val[2].lastModified
    /\ IdLess(ret.val[2].id, ret.val[1].id)

\* C8: the preferences table never holds more than one record; right after
\* savePreferences(P) a read returns P (so the later of two saves wins); and
\* what getPreferences returned is the data of the stored record, or null when
\* there is none.
C8_PreferencesRoundTrip ==
    /\ Cardinality(preferences) <= 1
    /\ ret.op = "savePreferences" => ReadPreferences(preferences) = ret.arg
    /\ ret.op = "getPreferences" =>
          IF preferences = {} THEN ret.val = Null
          ELSE \E r \in preferences : r.data = ret.val

\* A save of preferences with empty relays and mute lists over a different
\* record saved before.
C8_Witness ==
    /\ ret.op = "savePreferences"
    /\ ret.prev # Null
    /\ ret.prev # ret.arg
    /\ ret.arg.defaultRelays = <<>>
    /\ ret.arg.mutedUsers = <<>>
    /\ ret.arg.mutedWords = <<>>

C11_UpdateMissingDraftFails ==
    done.op = "updateDraft" =>
        IF done.val.err = ""
        THEN done.val.existed
        ELSE /\ done.val.err = "Draft not found"
             /\ IDBGet(done.val.pre, "id", done.val.id) = Null
             /\ done.val.post = done.val.pre

\* An updateDraft of a missing id, thrown to the hook's caller while the
\* table holds another draft.
C11_Witness ==
    /\ done.op = "updateDraft"
    /\ done.val.err = "Draft not found"
    /\ done.val.pre # {}
    /\ drafts = done.val.pre

\* C12 (as claimed): a deleteDraft of an id the drafts table did not hold
\* ends in an error.
C12_DeleteMissingDraftFails ==
    (ret.op = "deleteDraft" /\ ~ret.existed) => ret.err # ""

(***************************************************************************)
(* Properties of the service worker's strategies                           *)
(***************************************************************************)
\* C13 (as claimed): under stale-while-revalidate a hit is answered from the
\* cache with no wait for the fetch left running behind it, every put goes to
\* the cache of the request's handler with an ok response, and a miss is
\* answered after the awaited fetch, whose ok response is stored (its put is
\* pending or the handler's cache holds an entry for the request).
C13_StoresEveryOkResponse ==
    /\ \A p \in puts : p.resp.ok /\ p.cache = BucketOf(Classify(p.req))
    /\ (answer.source # "none"
        /\ StrategyOf(answer.handler) = "staleWhileRevalidate") =>
          IF answer.cached # Null
          THEN /\ answer.source = "cache" /\ answer.resp = answer.cached
               /\ ~answer.fetched /\ answer.background > 0
          ELSE /\ answer.fetched /\ answer.source \in {"network", "failure"}
               /\ (answer.source = "network" /\ answer.resp.ok) =>
                     \/ [cache |-> BucketOf(answer.handler), req |-> answer.req,
                         resp |-> answer.resp] \in puts
                     \/ /\ BucketOf(answer.handler) \in DOMAIN caches
                        /\ answer.req \in DOMAIN caches[BucketOf(answer.handler)]

\* C13 (amended): the same, where the ok response of a miss is stored when
\* the request is a GET; the put of any other request is rejected and stores
\* nothing.
C13_StaleWhileRevalidate ==
    /\ \A p \in puts : p.resp.ok /\ p.cache = BucketOf(Classify(p.req))
    /\ (answer.source # "none"
        /\ StrategyOf(answer.handler) = "staleWhileRevalidate") =>
          IF answer.cached # Null
          THEN /\ answer.source = "cache" /\ answer.resp = answer.cached
               /\ ~answer.fetched /\ answer.background > 0
          ELSE /\ answer.fetched /\ answer.source \in {"network", "failure"}
               /\ (answer.source = "network" /\ answer.resp.ok) =>
                     \/ [cache |-> BucketOf(answer.handler), req |-> answer.req,
                         resp |-> answer.resp] \in puts
                     \/ LET name == BucketOf(answer.handler)
                            stored == /\ name \in DOMAIN caches
                                      /\ answer.req \in DOMAIN caches[name]
                        IN  stored <=> answer.req.method = "GET"

\* The precached root page was answered from the cache, its background fetch
\* was stored, and a later request for it is answered with that response.
C13_Witness ==
    /\ answer.source = "cache"
    /\ answer.handler = "handleStaticRequest"
    /\ answer.req = RootPage
    /\ ~answer.afterOk
    /\ answer.resp = Response(TRUE, 1)
    /\ answer.background = 2

\* C14 (as claimed): a default same-origin (network-first) handler that is
\* waiting for the network does not wait forever: it settles, with or without
\* the network's answer.
C14_NetworkFirstAnswers ==
    (\E h \in handlers : h.handler = "handleNetworkFirstRequest")
        ~> (\A h \in handlers : h.handler # "handleNetworkFirstRequest")

C16_FailureIsPropagated ==
    answer.source # "none" =>
        /\ answer.source \in {"cache", "network", "failure"}
        /\ answer.source = "cache" =>
              answer.cached # Null /\ answer.resp = answer.cached
        /\ answer.source = "network" =>
              /\ answer.net = "responded"
              /\ answer.resp = Response(answer.resp.ok, answer.n)
        /\ answer.source = "failure" => answer.resp = Null
        /\ (answer.net = "failed" /\ answer.cached = Null) =>
              answer.source = "failure"

\* The fetch of a GET for a post failed with nothing cached for it, and the
\* handler ended in the error.
C16_Witness ==
    /\ answer.source = "failure"
    /\ answer.req = PostGet
    /\ answer.net = "failed"
    /\ answer.cached = Null

\* C17: a step of the activate listener leaves exactly the caches whose name
\* is one of the seven names the listener knows, each with the entries it
\* had; any other step of the worker deletes no cache.
C17_ActivationDeletesUnknownCaches ==
    [][LET known == {"jumble-static-v2", "jumble-images-v2", "jumble-api-v2",
                     "jumble-fonts-v2", "jumble-esm-v2", "jumble-posts-v2",
                     "jumble-user-v2"}
       IN  IF activated' # activated
           THEN /\ DOMAIN caches' = DOMAIN caches \cap known
                /\ \A name \in DOMAIN caches' : caches'[name] = caches[name]
           ELSE DOMAIN caches \subseteq DOMAIN caches']_vars

\* An activation that deleted the caches of the earlier worker and kept the
\* static cache and the post cache with the entry a request had stored in it.
C17_Witness ==
    /\ Len(activated) = 1
    /\ {OLD_CACHE_NAME, OLD_IMAGE_CACHE_NAME} \subseteq activated[1].deleted
    /\ POST_CACHE_NAME \in DOMAIN activated[1].kept
    /\ PostGet \in DOMAIN activated[1].kept[POST_CACHE_NAME]
    /\ RootPage \in DOMAIN activated[1].kept[STATIC_CACHE_NAME]
    /\ caches = activated[1].kept

C19_NothingSucceedsAfterFailedOpen ==
    \A i \in DOMAIN operations :
        (operations[i].issuedWhen = "rejected" /\ operations[i].stage = "ended")
            => operations[i].result = "failure" /\ operations[i].touched = "no"

\* The hook operations that change the drafts table.
HookMutations == {"saveDraft", "updateDraft", "deleteDraft", "clearAllData"}

\* C20: when a hook saveDraft, updateDraft, deleteDraft or clearAllData
\* completes, pendingSync and the exposed drafts equal the drafts table at
\* that moment, and they still do once every recomputation that was in
\* flight beside the call (interval, listener or mount) has completed.
C20_SnapshotMatchesDraftsAfterCall ==
    done.op \in HookMutations =>
        /\ done.fresh
        /\ tasks = {} =>
              /\ offlineState.pendingSync = Cardinality(drafts)
              /\ draftList = SortDrafts(CursorRows(drafts))

\* C21: once no recomputation of the snapshot is in flight, the snapshot's
\* isOnline equals the host's connectivity, in whatever order overlapping
\* recomputations completed.
C21_IsOnlineFollowsHost ==
    tasks = {} => offlineState.isOnline = hostOnline

\* C23: a syncPendingData call made while the host was offline returns
\* false, whatever the snapshot's isOnline said at the call (the false path
\* starts no recomputation and writes nothing).
C23_SyncFailsWhenHostOffline ==
    (done.op = "syncPendingData" /\ ~done.val.hostOnline) => ~done.val.ok

\* C22: a step that changes isOfflineMode is enableOfflineMode or
\* disableOfflineMode; enableOfflineMode leaves it true and
\* disableOfflineMode false, whatever the connectivity, and neither changes
\* another field of the snapshot, the drafts list or the store.
C22_OfflineModeOnlyByToggle ==
    [][/\ (offlineState'.isOfflineMode # offlineState.isOfflineMode)
            => (enableOfflineMode \/ disableOfflineMode)
       /\ enableOfflineMode =>
            offlineState' = [offlineState EXCEPT !.isOfflineMode = TRUE]
       /\ disableOfflineMode =>
            offlineState' = [offlineState EXCEPT !.isOfflineMode = FALSE]
       /\ (enableOfflineMode \/ disableOfflineMode) =>
            UNCHANGED <<draftList, hostOnline, storeVars>>]_vars

\* Offline mode is on with the host online, after clearAllData completed
\* with its recomputation and nothing is in flight.
C22_Witness ==
    /\ offlineState.isOfflineMode
    /\ hostOnline /\ offlineState.isOnline
    /\ done.op = "clearAllData"
    /\ tasks = {}

\* C24: when the service's clearAllData has returned without an error, no
\* cache exists, the database holds no record and both storages are empty.
C24_PurgeLeavesNothing ==
    (report.op = "clearAllData" /\ report.val.ok) =>
        /\ report.val.caches = {}
        /\ report.val.records = 0
        /\ report.val.localStorage = {}
        /\ report.val.sessionStorage = {}

\* The read operations of the service.
ProberReads ==
    {"testCachePersistence", "testIndexedDBPersistence", "testLocalStoragePersistence",
     "testSessionStoragePersistence", "testAllPersistence", "checkTestData"}

\* C25: a read operation of the service leaves the cache names and every
\* cache's contents as it found them, also when the probe cache did not
\* exist.
C25_ReadsChangeNoCache ==
    report.op \in ProberReads => report.after = report.before

\* C26: when the fetch of an api request that had timed out settles with an
\* ok response, that response is written into the API bucket: its put is
\* pending, or the bucket holds it or the response of a later fetch of the
\* same request.
C26_LateResponseIsStored ==
    late.ok =>
        \/ \E p \in puts : p.cache = API_CACHE_NAME /\ p.req = late.req /\ p.resp.n >= late.n
        \/ /\ CacheMatch(caches, API_CACHE_NAME, late.req) # Null
           /\ CacheMatch(caches, API_CACHE_NAME, late.req).n >= late.n

\* C27: when an updateDraft call returns, the row stored under its id is the
\* draft that call read overlaid with that call's updates and its clock
\* reading, whatever another call wrote between its read and its write and
\* whichever call was issued first.
C27_LastWriteWins ==
    (ret.op = "updateDraft" /\ ret.err = "") =>
        IDBGet(drafts, "id", ret.id) = MergeDraft(ret.read, ret.updates, ret.t)

\* Of two calls in flight on one id, the one issued first wrote last: the
\* row it replaced was the other call's, not the one it had read, and the
\* other call's content is gone.
C27_Witness ==
    /\ ret.op = "updateDraft" /\ ret.err = ""
    /\ ret.n = 1
    /\ ret.overwrote # Null /\ ret.overwrote # ret.read
    /\ ret.overwrote.content = "c3" /\ ret.updates = [lastModified |-> 0, kind |-> 7]
    /\ IDBGet(drafts, "id", ret.id).content = "c1"
    /\ calls = {}

\* C28: the posts table holds one row per post id at most, and every row
\* expires exactly CACHE_EXPIRATION.POSTS after its cachedAt.
C28_OneRowPerIdExpiringAfterTTL ==
    /\ \A r \in posts, q \in posts : r.id = q.id => r = q
    /\ \A r \in posts : r.expiresAt = r.cachedAt + CACHE_EXPIRATION_POSTS

(***************************************************************************)
(* Posts: the cursor reads                                                 *)
(***************************************************************************)
\* The order in which a cursor over the posts table meets the primary keys.
PostKeyOrder == <<"p1", "p2">>
\* Values of the `limit` argument; 50 is its default.
Limits == {1, 50}

\* store.openCursor() on the posts table: its rows in key order.
PostCursorRows(store) ==
    LET ids == SelectSeq(PostKeyOrder, LAMBDA id : \E r \in store : r.id = id)
    IN  [i \in 1..Len(ids) |-> IDBGet(store, "id", ids[i])]

\* store.index(indexName).openCursor(key): the rows that have the property
\* named by the index's key path, with that value, in key order.
IndexRows(store, indexName, key) ==
    SelectSeq(PostCursorRows(store),
              LAMBDA r : indexName \in DOMAIN r /\ r[indexName] = key)

\* Mutant of CursorPush: a row is pushed whatever its expiry.
CursorPushAlways(cachedPost, t) ==
    TRUE

\* `if (cachedPost.expiresAt > Date.now())` of the two cursor callbacks.
CursorPush(cachedPost, t) ==
    cachedPost.expiresAt > t

\* The onsuccess callbacks of a cursor from row i on: `posts` so far is
\* acc.val, the rows met and the clock reading of each test are acc.visited.
\* The walk ends at the end of the rows or when posts.length reaches limit.
RECURSIVE CursorWalk(_, _, _, _, _)
CursorWalk(rows, readings, limit, i, acc) ==
    IF i > Len(rows) \/ Len(acc.val) >= limit
    THEN acc
    ELSE LET cachedPost == rows[i]
             t == readings[i]
         IN  CursorWalk(rows, readings, limit, i + 1,
                 [val |-> IF CursorPush(cachedPost, t)
                          THEN Append(acc.val, cachedPost.data)
                          ELSE acc.val,
                  visited |-> Append(acc.visited, [row |-> cachedPost, at |-> t])])

\* One clock reading for each row a cursor can meet, none earlier than the
\* one before it.
CursorReadings ==
    {rd \in [1..Len(PostKeyOrder) -> Times] :
        /\ rd[1] >= now
        /\ \A i \in 1..(Len(PostKeyOrder) - 1) : rd[i] <= rd[i + 1]}

\* The clock after a walk: the reading of the last test it made.
ClockAfter(walk) ==
    IF walk.visited = <<>> THEN now ELSE walk.visited[Len(walk.visited)].at

\* getAllCachedPosts: one readonly transaction, so the table does not change
\* under the cursor; the clock is read once for each row.
GetAllCachedPosts(readings) ==
    /\ readings \in CursorReadings
    /\ LET rows == PostCursorRows(posts)
           walk == CursorWalk(rows, readings, Len(rows) + 1, 1,
                              [val |-> <<>>, visited |-> <<>>])
       IN  /\ ret' = [op |-> "getAllCachedPosts", val |-> walk.val,
                      visited |-> walk.visited, stored |-> posts,
                      at |-> ClockAfter(walk)]
           /\ now' = ClockAfter(walk)
    /\ UNCHANGED <<posts, drafts, preferences, cache, syncQueue, calls>>
    /\ UNCHANGED <<routerVars, coordVars, openVars, proberVars, updateVars>>

\* getPostsByAuthor: the cursor of the 'author' index, whose key path is the
\* property `author` of the stored row.
GetPostsByAuthor(author, limit, readings) ==
    /\ readings \in CursorReadings
    /\ LET rows == IndexRows(posts, "author", author)
           walk == CursorWalk(rows, readings, limit, 1,
                              [val |-> <<>>, visited |-> <<>>])
       IN  /\ ret' = [op |-> "getPostsByAuthor", author |-> author,
                      limit |-> limit, val |-> walk.val,
                      visited |-> walk.visited, stored |-> posts,
                      at |-> ClockAfter(walk)]
           /\ now' = ClockAfter(walk)
    /\ UNCHANGED <<posts, drafts, preferences, cache, syncQueue, calls>>
    /\ UNCHANGED <<routerVars, coordVars, openVars, proberVars, updateVars>>

\* Every read and write of the posts table with the background cleanup,
\* clearAllData and the clock.
NextPostReads ==
    \/ PostsNext(PostInputs)
    \/ \E readings \in CursorReadings : GetAllCachedPosts(readings)
    \/ \E author \in Authors, limit \in Limits, readings \in CursorReadings :
          GetPostsByAuthor(author, limit, readings)
    \/ MaintenanceNext
SpecPostReads == InitIdle /\ [][NextPostReads]_vars

\* The elements of a sequence.
Range(s) == {s[i] : i \in DOMAIN s}

\* C29: getPostsByAuthor(a, n) returns every unexpired cached post whose
\* payload author is a when there are at most n of them; a post saved with
\* author a is returned while it is unexpired.
C29_UnexpiredPostsOfAuthorReturned ==
    ret.op = "getPostsByAuthor" =>
        LET mine == {r \in ret.stored :
                        r.data.author = ret.author /\ r.expiresAt > ret.at}
        IN  Cardinality(mine) <= ret.limit =>
                \A r \in mine : r.data \in Range(ret.val)

\* C30: a payload returned by getPost, getAllCachedPosts or getPostsByAuthor
\* belongs to a stored row whose expiresAt is later than the clock reading
\* the read tested it against.
C30_NoExpiredPayloadIsRead ==
    /\ (ret.op = "getPost" /\ ret.val # Null) =>
           /\ ret.val = ret.row.data
           /\ ret.row.expiresAt > ret.at
    /\ ret.op \in {"getAllCachedPosts", "getPostsByAuthor"} =>
           \A i \in DOMAIN ret.val :
               \E j \in DOMAIN ret.visited :
                   /\ ret.visited[j].row \in ret.stored
                   /\ ret.visited[j].row.data = ret.val[i]
                   /\ ret.visited[j].row.expiresAt > ret.visited[j].at

\* A scan met an expired row that the cleanup had not removed, left it out,
\* and returned the payload of a fresh row.
C30_Witness ==
    /\ ret.op = "getAllCachedPosts"
    /\ Len(ret.val) = 1
    /\ \E j \in DOMAIN ret.visited :
           ret.visited[j].row.expiresAt <= ret.visited[j].at

(***************************************************************************)
(* Drafts: updates that carry key fields                                   *)
(***************************************************************************)
\* Partial<OfflineDraft> values that carry the fields a caller does not
\* usually change: the key and the creation time.
KeyUpdates ==
    { [id |-> DraftId(0, 2)],
      [createdAt |-> 2, content |-> "c4"] }

\* The drafts API with every kind of updates value, and the clock.
NextDraftUpdates ==
    \/ \E draft \in OneDraft, t \in Times : SaveDraft(draft, 1, t, t, t)
    \/ \E id \in CallIds, u \in OneUpdate \cup KeyUpdates, t \in Times :
          UpdateDraft(id, u, t)
    \/ \E id \in CallIds : GetDraft(id)
    \/ \E id \in CallIds : DeleteDraft(id)
    \/ \E t \in Times : Tick(t)
SpecDraftUpdates == InitIdle /\ [][NextDraftUpdates]_vars

\* C31 (as claimed): an updateDraft(id, updates) that returned left the set
\* of ids of the drafts table as it was, wrote the row keyed by id, kept its
\* id and createdAt, set its lastModified to the time of the update and left
\* every other row alone, whatever updates holds.
C31_UpdateMutatesInPlace ==
    [][(ret'.op = "updateDraft" /\ ret'.err = "") =>
          LET old == IDBGet(drafts, "id", ret'.id)
              new == IDBGet(drafts', "id", ret'.id)
          IN  /\ {d.id : d \in drafts'} = {d.id : d \in drafts}
              /\ old # Null /\ new # Null
              /\ new.createdAt = old.createdAt
              /\ new.lastModified = now'
              /\ \A d \in drafts : d.id # ret'.id => d \in drafts']_vars

(***************************************************************************)
(* The hook while the database open is pending, succeeds or fails          *)
(***************************************************************************)
\* A draft an earlier session saved at clock reading 0.
StoredDraft ==
    [id |-> DraftId(0, 1), content |-> "c1", tags |-> <<>>, kind |-> 1,
     createdAt |-> 0, lastModified |-> 0]

\* The module was loaded (the constructor issued the open) and the hook is
\* mounted; the tables hold what an earlier session wrote.
InitMounting ==
    /\ now = 0
    /\ posts \in {{}, {StoredPost}}
    /\ drafts \in {{}, {StoredDraft}}
    /\ preferences = {} /\ cache = {} /\ syncQueue = {}
    /\ calls = {}
    /\ ret = [op |-> "none"]
    /\ InitRouter /\ caches = Precached
    /\ InitCoord
    /\ instance = TRUE /\ openRequest = "pending" /\ db = "null"
    /\ initialized = FALSE /\ initPromise = "pending" /\ opens = 1
    /\ operations = <<>>
    /\ InitProber

NextMounting ==
    \/ RequestSucceeds
    \/ RequestFails
    \/ InitCompletes
    \/ InitThrows
    \/ ConnectivityEvent
    \/ IntervalFires
    \/ \E task \in tasks : TaskReadsDrafts(task)
    \/ \E task \in tasks : TaskCommits(task)
    \/ \E task \in tasks : TaskRejects(task)
    \/ enableOfflineMode
    \/ disableOfflineMode
SpecMounting == InitMounting /\ [][NextMounting]_vars

\* C32 (as claimed): when the open failed no updateOnlineStatus run started
\* at start-up, by a connectivity event or by the interval ends in an error
\* that nothing handles, and once every run has ended the snapshot's isOnline
\* is the host's connectivity with no offline data and nothing pending.
C32_FailedOpenIsSurfaced ==
    initPromise = "rejected" =>
        /\ done.op = "updateOnlineStatus" => done.handled
        /\ tasks = {} =>
              /\ offlineState.isOnline = hostOnline
              /\ ~offlineState.hasOfflineData
              /\ offlineState.pendingSync = 0

\* The handlers the fetch listener hands a request to.
HandlerNames ==
    {"handleImageRequest", "handleFontRequest", "handleStaticRequest",
     "handleAPIRequest", "handlePostRequest", "handleESMRequest",
     "handleNetworkFirstRequest", "handleCrossOriginRequest"}

\* C33 (as claimed): the cache of every handler is one of the names the
\* activate listener keeps, so no activation has deleted a cache that a
\* handler of this worker writes into.
C33_ActivationKeepsHandlerCaches ==
    \A i \in DOMAIN activated :
        \A h \in HandlerNames :
            /\ BucketOf(h) \in currentCaches
            /\ BucketOf(h) \notin activated[i].deleted

\* C34 (as claimed): the step in which a getPost ends after its lazy delete
\* removes no row of the posts table that is unexpired at that time.
C34_GetPostKeepsFreshRows ==
    [][\A c \in calls :
          (c.op = "getPost" /\ c \notin calls') =>
              \A r \in posts : r.expiresAt > now => r \in posts']_vars

\* C35 (as claimed): an id that deleteDraft removed is not in the drafts
\* table again: the put that ends an updateDraft adds no id the table did
\* not hold, also when the draft it read was removed in between.
C35_RemovedDraftStaysRemoved ==
    [][\A call \in calls :
          (call.op = "updateDraft" /\ call \notin calls') =>
              \A d \in drafts' : \E q \in drafts : q.id = d.id]_vars

\* saveDraft with every draft input and getDraft, with deleteDraft and the
\* clock.
NextDraftRoundTrip ==
    \/ \E draft \in DraftInputs, s \in Suffixes, t1 \in Times, t2 \in Times, t3 \in Times :
          SaveDraft(draft, s, t1, t2, t3)
    \/ \E id \in CallIds : GetDraft(id)
    \/ \E id \in CallIds : DeleteDraft(id)
    \/ \E t \in Times : Tick(t)
SpecDraftRoundTrip == InitIdle /\ [][NextDraftRoundTrip]_vars

\* C36 (as claimed): a getDraft of the id that the saveDraft just before it
\* returned gives a draft with the content, tags, kind and targetRelays of
\* the input, and with createdAt = lastModified.
C36_SavedDraftReadsBack ==
    [][(ret.op = "saveDraft" /\ ret'.op = "getDraft" /\ ret'.id = ret.val) =>
          /\ ret'.val # Null
          /\ ret'.val.content = ret.draft.content
          /\ ret'.val.tags = ret.draft.tags
          /\ ret'.val.kind = ret.draft.kind
          /\ ("targetRelays" \in DOMAIN ret.draft) <=> ("targetRelays" \in DOMAIN ret'.val)
          /\ "targetRelays" \in DOMAIN ret.draft =>
                ret'.val.targetRelays = ret.draft.targetRelays
          /\ ret'.val.createdAt = ret'.val.lastModified]_vars

\* C37: every entry of every cache of the worker is an ok response, and so
\* is the response of every put that was issued and has not committed yet.
C37_EveryEntryIsOk ==
    /\ \A name \in DOMAIN caches :
          \A req \in DOMAIN caches[name] : caches[name][req].ok
    /\ \A p \in puts : p.resp.ok

\* The network answered not-ok for a request whose cache held an entry: the
\* handler fell back to that entry, which is still the one in the cache, and
\* no put is pending.
C37_Witness ==
    /\ answer.source = "cache"
    /\ answer.net = "responded"
    /\ answer.cached # Null
    /\ puts = {}
    /\ BucketOf(answer.handler) \in DOMAIN caches
    /\ answer.req \in DOMAIN caches[BucketOf(answer.handler)]
    /\ caches[BucketOf(answer.handler)][answer.req] = answer.cached

\* CachePersistenceService beside the worker where what the browser owes
\* does happen: the cache deletions finish, and the deleteDatabase requests
\* succeed once nothing blocks them.  An error of a request is owed to
\* nobody.
SpecAuditFair ==
    /\ InitAudit /\ [][NextAudit]_vars
    /\ WF_vars(PurgeDeletesCaches)
    /\ WF_vars(PurgeCompletes)

\* C38 (as claimed): a clearAllData of the service that was started ends,
\* returning or throwing.
C38_PurgeTerminates ==
    (prober.op = "clearAllData") ~> (prober = Idle)

(***************************************************************************)
(* A new worker generation beside the page's registration script           *)
(* (part_007 install, activate and message listeners; cache-test.js)       *)
(***************************************************************************)
\* The caches of the worker this one replaces.
OldCaches ==
    (OLD_CACHE_NAME :> (RelayInfo :> Response(TRUE, 0)))
        @@ (OLD_IMAGE_CACHE_NAME :> (LogoPng :> Response(TRUE, 0)))

\* register() has found a new script: the registration fires updatefound,
\* whose listener puts a statechange listener on the installing worker, and
\* the worker gets its install event.
UpdateFound ==
    /\ worker.state = "parsed"
    /\ worker' = [worker EXCEPT !.state = "installing"]
    /\ UNCHANGED page
    /\ UNCHANGED <<storeVars, routerVars, coordVars, openVars, proberVars>>

\* The install listener: the static cache is opened and addAll stores the
\* static URLs or fails; on either path self.skipWaiting() is called.  The
\* worker is installed and the page is sent a statechange event.
InstallEvent(ok) ==
    /\ worker.state = "installing"
    /\ caches' = IF ok
                 THEN CachePut(caches, STATIC_CACHE_NAME, RootPage, Response(TRUE, 0))
                 ELSE OpenCache(caches, STATIC_CACHE_NAME)
    /\ worker' = [worker EXCEPT !.state = "installed", !.skipWaiting = TRUE]
    /\ page' = [page EXCEPT !.statechange = TRUE]
    /\ UNCHANGED <<handlers, refreshes, puts, fetches, answer, served, routed,
                   activated, abandoned, late>>
    /\ UNCHANGED <<storeVars, coordVars, openVars, proberVars>>

\* The page's statechange listener: notifyUpdate when the worker is (still)
\* installed and the page has a controller.
StateChange ==
    /\ page.statechange
    /\ page' = [page EXCEPT
                  !.statechange = FALSE,
                  !.notification = (page.notification \/ worker.state = "installed")]
    /\ UNCHANGED worker
    /\ UNCHANGED <<storeVars, routerVars, coordVars, openVars, proberVars>>

\* An installed worker whose skip-waiting flag is set is activated although
\* the older worker controls the page: its activate listener runs.
ActivateEvent ==
    /\ worker.state = "installed" /\ worker.skipWaiting
    /\ Activate

\* The click handler of the notification: SKIP_WAITING is posted to the
\* waiting worker when there is one, and the notification is removed.
ClickUpdate ==
    /\ page.notification
    /\ worker' = IF worker.state = "installed"
                 THEN [worker EXCEPT !.inbox = @ + 1]
                 ELSE worker
    /\ page' = [page EXCEPT !.notification = FALSE, !.clicked = TRUE]
    /\ UNCHANGED <<storeVars, routerVars, coordVars, openVars, proberVars>>

\* The 10 second timer of notifyUpdate removes the notification.
NotificationExpires ==
    /\ page.notification
    /\ page' = [page EXCEPT !.notification = FALSE]
    /\ UNCHANGED worker
    /\ UNCHANGED <<storeVars, routerVars, coordVars, openVars, proberVars>>

\* The message listener of the worker: SKIP_WAITING calls self.skipWaiting().
MessageEvent ==
    /\ worker.inbox > 0
    /\ worker' = [worker EXCEPT !.inbox = @ - 1, !.skipWaiting = TRUE]
    /\ UNCHANGED page
    /\ UNCHANGED <<storeVars, routerVars, coordVars, openVars, proberVars>>

\* The page's controllerchange listener: window.location.reload().
ControllerChange ==
    /\ page.controllerchange
    /\ page' = [page EXCEPT !.controllerchange = FALSE, !.statechange = FALSE,
                            !.notification = FALSE, !.reloads = @ + 1]
    /\ UNCHANGED worker
    /\ UNCHANGED <<storeVars, routerVars, coordVars, openVars, proberVars>>

\* The older worker controls the page and register() has fetched the script
\* of this one.
InitUpdating ==
    /\ InitStore /\ InitCoord /\ InitOpened /\ InitProber
    /\ hostOnline = TRUE
    /\ worker = [state |-> "parsed", skipWaiting |-> FALSE, inbox |-> 0]
    /\ page = [controller |-> "old", statechange |-> FALSE, notification |-> FALSE,
               controllerchange |-> FALSE, clicked |-> FALSE, reloads |-> 0]
    /\ caches = OldCaches
    /\ activated = <<>>
    /\ abandoned = {}
    /\ late = [ok |-> FALSE]
    /\ handlers = {}
    /\ refreshes = {}
    /\ puts = {}
    /\ fetches = 0
    /\ answer = [source |-> "none"]
    /\ served = {}
    /\ routed = [handler |-> "none"]

\* The update of the worker, and the requests of the page once this worker
\* controls it.
NextUpdating ==
    \/ UpdateFound
    \/ \E ok \in BOOLEAN : InstallEvent(ok)
    \/ StateChange
    \/ ActivateEvent
    \/ ClickUpdate
    \/ NotificationExpires
    \/ MessageEvent
    \/ ControllerChange
    \/ \E req \in GenerationRequests : page.controller = "new" /\ FetchEvent(req)
    \/ \E h \in handlers, ok \in BOOLEAN : NetworkResponds(h, ok)
    \/ \E h \in handlers : NetworkFails(h)
    \/ \E r \in refreshes, outcome \in {"ok", "other"} : RefreshSettles(r, outcome)
    \/ \E p \in puts : PutCommits(p)
SpecUpdating == InitUpdating /\ [][NextUpdating]_vars

\* C39 (as claimed): the new worker controls the page, and the page has
\* reloaded, only after the user clicked the update notification; the page
\* reloads once at most.
C39_ControlOnlyAfterClick ==
    /\ (page.controller = "new" \/ page.reloads > 0) => page.clicked
    /\ page.reloads <= 1
=============================================================================
